---------------------------- MODULE Spec2Model ----------------------------
(***************************************************************************)
(* AirCommuter economy engine (src/services.py, src/seat_types.py,         *)
(* src/catalog.py, src/storage.py) as a state machine over the persisted   *)
(* JSON document.                                                          *)
(*                                                                         *)
(* Every engine call is load -> mutate -> save on one document, so the     *)
(* state is the document `doc` plus the wall clock `today`.  `last` records *)
(* the last call (operation, arguments, raised, return value, day),        *)
(* `before` is the document as it was when that call began, `reported`     *)
(* lists the achievement ids that calls have returned as newly earned,     *)
(* `ids` counts the uuids handed out by _new_id and `nOps` the calls made. *)
(*                                                                         *)
(* Number representation (Python floats become exact fixed point):         *)
(*   reputation            tenths of a point      (100.0  -> 1000)         *)
(*   flight / check hours  tenths of an hour      (4000 h -> 40000)        *)
(*   reliability           millionths             (1.0    -> 1000000)      *)
(*   oil quantities        thousandths of a quart (24.0   -> 24000)        *)
(*   fuel price multiplier hundredths             (1.0    -> 100)          *)
(*   seat comfort          tenths                 (1.5    -> 15)           *)
(*   seasonal multiplier   tenths                 (1.3    -> 13)           *)
(* _now_ts() is today * 86400: all calls of one day happen at one instant, *)
(* so "within the last 24 h" is "on the same day".                         *)
(***************************************************************************)
EXTENDS Integers, Sequences, FiniteSets, TLC

VARIABLES doc, today, last, before, reported, ids, nOps

vars == <<doc, today, last, before, reported, ids, nOps>>

---------------------------------------------------------------------------
(* Arithmetic helpers: Python int() truncates toward zero, // floors.      *)

Min(a, b) == IF a <= b THEN a ELSE b

Max(a, b) == IF a >= b THEN a ELSE b

Abs(a) == IF a >= 0 THEN a ELSE -a

\* int(a / b) for b > 0: truncation toward zero
TruncDiv(a, b) == IF a >= 0 THEN a \div b ELSE -((-a) \div b)


\* <<q, r>> with x * a = q * b + r and 0 <= r < b, for x, a >= 0 and b > 0;
\* by binary long multiplication, so that no intermediate exceeds 2 * b + x
RECURSIVE MulDivMod(_, _, _)
MulDivMod(x, a, b) ==
    IF a = 0 THEN <<0, 0>>
    ELSE LET h  == MulDivMod(x, a \div 2, b)
             q2 == 2 * h[1] + (2 * h[2]) \div b
             r2 == (2 * h[2]) % b
         IN  IF a % 2 = 0 THEN <<q2, r2>>
             ELSE <<q2 + (x \div b) + (r2 + (x % b)) \div b, (r2 + (x % b)) % b>>

RECURSIVE GCD(_, _)
GCD(a, b) == IF b = 0 THEN a ELSE GCD(b, a % b)

\* int(x * a / b) for b > 0: the exact quotient truncated toward zero
MulDivTrunc(x, a, b) ==
    LET q == MulDivMod(Abs(x), Abs(a), b)[1]
    IN  IF (x >= 0) = (a >= 0) THEN q ELSE -q

RECURSIVE Pow(_, _)
Pow(b, n) == IF n <= 0 THEN 1 ELSE b * Pow(b, n - 1)

\* a rational n/d in lowest terms, d > 0
Rat(n, d) == LET g == GCD(Abs(n), Abs(d))
                 s == IF d < 0 THEN -1 ELSE 1
             IN  IF g = 0 THEN <<0, 1>> ELSE <<s * (n \div g), s * (d \div g)>>

RatMul(p, q) == LET a == Rat(p[1], q[2])
                    b == Rat(q[1], p[2])
                IN  Rat(a[1] * b[1], a[2] * b[2])

RatLess(p, q) == p[1] * q[2] < q[1] * p[2]

\* Python round(): nearest integer, ties to even
RoundHalfEven(p) ==
    LET n == p[1]
        d == p[2]
        f == n \div d
        r == n % d
    IN  IF 2 * r < d THEN f
        ELSE IF 2 * r > d THEN f + 1
        ELSE IF f % 2 = 0 THEN f ELSE f + 1

SeqMap(f(_), s) == [i \in 1..Len(s) |-> f(s[i])]

Range(s) == {s[i] : i \in 1..Len(s)}

\* index of the first element satisfying P, 0 if none (next(..., None))
FirstIdx(s, P(_)) ==
    IF \E i \in 1..Len(s) : P(s[i])
    THEN CHOOSE i \in 1..Len(s) : P(s[i]) /\ \A j \in 1..(i - 1) : ~P(s[j])
    ELSE 0

\* the sequence without its i-th element (list.pop(i))
RemoveAt(s, i) == [j \in 1..(Len(s) - 1) |-> IF j < i THEN s[j] ELSE s[j + 1]]

\* the last n elements of s (s[-n:])
LastN(s, n) == IF Len(s) <= n THEN s ELSE SubSeq(s, Len(s) - n + 1, Len(s))

---------------------------------------------------------------------------
(* src/catalog.py                                                          *)

aircraft_catalog ==
    [ C337 |-> [price |-> 180000,   capacity |-> 5,   hourly_cost |-> 20,  max_seats_per_row |-> 2, max_rows |-> 3,  has_oil |-> TRUE,  oil_capacity |-> 24000, oil_minimum |-> 7000],
      BE58 |-> [price |-> 250000,   capacity |-> 5,   hourly_cost |-> 20,  max_seats_per_row |-> 2, max_rows |-> 3,  has_oil |-> TRUE,  oil_capacity |-> 24000, oil_minimum |-> 5000],
      C404 |-> [price |-> 400000,   capacity |-> 10,  hourly_cost |-> 40,  max_seats_per_row |-> 2, max_rows |-> 5,  has_oil |-> TRUE,  oil_capacity |-> 20000, oil_minimum |-> 6000],
      C90B |-> [price |-> 600000,   capacity |-> 6,   hourly_cost |-> 100, max_seats_per_row |-> 2, max_rows |-> 3,  has_oil |-> TRUE,  oil_capacity |-> 18000, oil_minimum |-> 7000],
      DHC6 |-> [price |-> 1000000,  capacity |-> 19,  hourly_cost |-> 200, max_seats_per_row |-> 3, max_rows |-> 7,  has_oil |-> TRUE,  oil_capacity |-> 18000, oil_minimum |-> 6000],
      B190 |-> [price |-> 1500000,  capacity |-> 19,  hourly_cost |-> 140, max_seats_per_row |-> 3, max_rows |-> 7,  has_oil |-> FALSE, oil_capacity |-> 0,     oil_minimum |-> 0],
      L410 |-> [price |-> 1000000,  capacity |-> 19,  hourly_cost |-> 140, max_seats_per_row |-> 3, max_rows |-> 7,  has_oil |-> TRUE,  oil_capacity |-> 16000, oil_minimum |-> 6000],
      B350 |-> [price |-> 1850000,  capacity |-> 8,   hourly_cost |-> 155, max_seats_per_row |-> 2, max_rows |-> 4,  has_oil |-> FALSE, oil_capacity |-> 0,     oil_minimum |-> 0],
      M700 |-> [price |-> 300000,   capacity |-> 5,   hourly_cost |-> 40,  max_seats_per_row |-> 2, max_rows |-> 3,  has_oil |-> FALSE, oil_capacity |-> 0,     oil_minimum |-> 0],
      C208 |-> [price |-> 2500000,  capacity |-> 12,  hourly_cost |-> 30,  max_seats_per_row |-> 3, max_rows |-> 4,  has_oil |-> TRUE,  oil_capacity |-> 16000, oil_minimum |-> 6000],
      E55P |-> [price |-> 5000000,  capacity |-> 8,   hourly_cost |-> 170, max_seats_per_row |-> 2, max_rows |-> 4,  has_oil |-> FALSE, oil_capacity |-> 0,     oil_minimum |-> 0],
      AT72 |-> [price |-> 14000000, capacity |-> 70,  hourly_cost |-> 360, max_seats_per_row |-> 4, max_rows |-> 20, has_oil |-> TRUE,  oil_capacity |-> 24000, oil_minimum |-> 10000],
      E190 |-> [price |-> 30000000, capacity |-> 100, hourly_cost |-> 360, max_seats_per_row |-> 4, max_rows |-> 28, has_oil |-> FALSE, oil_capacity |-> 0,     oil_minimum |-> 0],
      A320 |-> [price |-> 51000000, capacity |-> 150, hourly_cost |-> 560, max_seats_per_row |-> 6, max_rows |-> 40, has_oil |-> FALSE, oil_capacity |-> 0,     oil_minimum |-> 0],
      B738 |-> [price |-> 48000000, capacity |-> 162, hourly_cost |-> 520, max_seats_per_row |-> 6, max_rows |-> 40, has_oil |-> FALSE, oil_capacity |-> 0,     oil_minimum |-> 0] ]

---------------------------------------------------------------------------
(* src/seat_types.py                                                       *)

get_seat_types ==
    [ SLIM     |-> [cost_per_seat |-> 500,  comfort |-> 10],
      RECL     |-> [cost_per_seat |-> 1500, comfort |-> 15],
      LIE140   |-> [cost_per_seat |-> 3500, comfort |-> 25],
      LIE180   |-> [cost_per_seat |-> 6000, comfort |-> 35],
      BUSINESS |-> [cost_per_seat |-> 2500, comfort |-> 20],
      PREMIUM  |-> [cost_per_seat |-> 1000, comfort |-> 13] ]

\* an unknown code falls back to the first seat type
get_seat_type(code) ==
    IF code \in DOMAIN get_seat_types THEN get_seat_types[code] ELSE get_seat_types["SLIM"]

\* int(row.get("seats", default)): the seats of a row, default when the key is absent
RowSeats(row, default) == IF "seats" \in DOMAIN row THEN row.seats ELSE default

RECURSIVE calculate_cabin_cost(_)
calculate_cabin_cost(layout) ==
    IF layout = <<>> THEN 0
    ELSE get_seat_type(Head(layout).seat_type).cost_per_seat * RowSeats(Head(layout), 6)
         + calculate_cabin_cost(Tail(layout))

RECURSIVE calculate_cabin_total_seats(_)
calculate_cabin_total_seats(layout) ==
    IF layout = <<>> THEN 0
    ELSE RowSeats(Head(layout), 0) + calculate_cabin_total_seats(Tail(layout))

\* total_comfort of calculate_cabin_comfort, in tenths of a comfort point
RECURSIVE CabinComfortSum(_)
CabinComfortSum(layout) ==
    IF layout = <<>> THEN 0
    ELSE get_seat_type(Head(layout).seat_type).comfort * RowSeats(Head(layout), 6)
         + CabinComfortSum(Tail(layout))

\* total_seats of calculate_cabin_comfort (a row without a seats key counts 6)
RECURSIVE CabinComfortSeats(_)
CabinComfortSeats(layout) ==
    IF layout = <<>> THEN 0
    ELSE RowSeats(Head(layout), 6) + CabinComfortSeats(Tail(layout))

\* the comfort with the seats counted as calculate_cabin_total_seats counts them
calculate_cabin_comfort_by_total_seats(layout) ==
    LET total_seats == calculate_cabin_total_seats(layout)
    IN  IF layout = <<>> \/ total_seats <= 0 THEN <<1, 1>>
        ELSE Rat(CabinComfortSum(layout), 10 * total_seats)

\* the comfort as a rational of points: (sum comfort*seats) / seats, 1.0 when empty
calculate_cabin_comfort(layout) ==
    LET total_seats == CabinComfortSeats(layout)
    IN  IF layout = <<>> \/ total_seats <= 0 THEN <<1, 1>>
        ELSE Rat(CabinComfortSum(layout), 10 * total_seats)

RECURSIVE DefaultRows(_, _, _, _)
DefaultRows(i, rows, seats_per_row, remaining) ==
    IF i > rows \/ remaining <= 0 THEN <<>>
    ELSE LET seats_in_row == Min(seats_per_row, remaining)
         IN  <<[row |-> i, seat_type |-> "SLIM", seats |-> seats_in_row]>>
             \o DefaultRows(i + 1, rows, seats_per_row, remaining - seats_in_row)

\* defined for seats_per_row /= 0 (Python raises ZeroDivisionError otherwise)
get_default_layout(capacity, max_seats_per_row, max_rows) ==
    LET seats_per_row == Min(max_seats_per_row, capacity)
        rows == Max(1, Min(max_rows, (capacity + seats_per_row - 1) \div seats_per_row))
    IN  DefaultRows(1, rows, seats_per_row, capacity)

---------------------------------------------------------------------------
(* The persisted document and the outcome of a call                        *)

\* day value standing for "key absent" (last_daily_tick_day, a service never bought)
NoDay == -1

Airports == {"HOME", "JFK"}

ServiceTypes == {"refueling", "deicing", "catering", "ground_power", "lavatory", "water", "cleaning", "livery"}

\* ensure_storage_seed (src/main_menu.py) writes cash, company and fleet; every
\* other key is absent and takes its get_state default
InitDoc ==
    [ cash                  |-> 5000000,
      reputation            |-> 0,
      fleet                 |-> <<>>,
      loans                 |-> <<>>,
      leases                |-> <<>>,
      active_flights        |-> <<>>,
      completed_flights     |-> <<>>,
      ledger                |-> <<>>,
      parking               |-> [a \in Airports |-> [spots |-> 0, hangars |-> 0]],
      pilots                |-> <<>>,
      achievements          |-> <<>>,
      custom_items          |-> <<>>,
      fuel_price_multiplier |-> 100,
      last_daily_tick_day   |-> NoDay ]

\* load_state plus the setdefault calls: only last_daily_tick_day has a default
\* that is not the empty value
get_state(d, day) ==
    IF d.last_daily_tick_day = NoDay THEN [d EXCEPT !.last_daily_tick_day = day] ELSE d

\* outcome of a call: the document on disk after it, whether it raised, what it
\* returned, and how many fresh ids it drew
Ok(d, ret) == [doc |-> d, raised |-> FALSE, ret |-> ret, used |-> 0]

OkIds(d, ret, n) == [doc |-> d, raised |-> FALSE, ret |-> ret, used |-> n]

Raise(d, why) == [doc |-> d, raised |-> TRUE, ret |-> why, used |-> 0]

LedgerCap == 1000

\* the ledger capped by keeping its first entries
_add_ledger_keeping_oldest(d, category, amount) ==
    LET ledger == Append(d.ledger, [category |-> category, amount |-> amount])
    IN  [d EXCEPT !.ledger = IF Len(ledger) > LedgerCap THEN SubSeq(ledger, 1, LedgerCap) ELSE ledger]

_add_ledger(d, category, amount) ==
    LET ledger == Append(d.ledger, [category |-> category, amount |-> amount])
    IN  [d EXCEPT !.ledger = IF Len(ledger) > LedgerCap THEN LastN(ledger, LedgerCap) ELSE ledger]

_has_owned_parking(d, airport) ==
    IF airport \in DOMAIN d.parking
    THEN d.parking[airport].spots > 0 \/ d.parking[airport].hangars > 0
    ELSE FALSE

has_hangar_at_airport(d, airport) ==
    IF airport \in DOMAIN d.parking THEN d.parking[airport].hangars > 0 ELSE FALSE

_has_available_parking(d, airport) ==
    IF airport = "HOME" THEN TRUE
    ELSE LET info == IF airport \in DOMAIN d.parking THEN d.parking[airport]
                     ELSE [spots |-> 0, hangars |-> 0]
             at_airport == Cardinality({i \in 1..Len(d.fleet) : d.fleet[i].location = airport})
         IN  at_airport < info.spots + info.hangars * 10

\* index of the aircraft with this id in the fleet, 0 if none
AcIdx(d, aircraft_id) == FirstIdx(d.fleet, LAMBDA ac : ac.id = aircraft_id)

CatHas(type_code) == type_code \in DOMAIN aircraft_catalog

MAINTENANCE_INTERVALS == [A |-> 1500, B |-> 7500, C |-> 40000]

---------------------------------------------------------------------------
(* Reputation                                                              *)

\* update_reputation without the clamp to [0, 100]
update_reputation_unclamped(change, d) ==
    [d EXCEPT !.reputation = d.reputation + change]

update_reputation(change, d) ==
    LET new_reputation == Max(0, Min(1000, d.reputation + change))
    IN  [d EXCEPT !.reputation = new_reputation]

\* bonus_percent is piecewise linear in the reputation; int() truncates
calculate_reputation_bonus(reputation, base_revenue) ==
    IF reputation < 200 THEN MulDivTrunc(base_revenue, reputation - 400, 4000)
    ELSE IF reputation < 400 THEN MulDivTrunc(base_revenue, (reputation - 200) - 200, 4000)
    ELSE IF reputation < 600 THEN MulDivTrunc(base_revenue, reputation - 400, 4000)
    ELSE IF reputation < 800 THEN MulDivTrunc(base_revenue, 100 + (reputation - 600), 2000)
    ELSE MulDivTrunc(base_revenue, 300 + (reputation - 800), 2000)

---------------------------------------------------------------------------
(* Loans                                                                   *)

RECURSIVE FleetValue(_)
FleetValue(fleet) ==
    IF fleet = <<>> THEN 0
    ELSE LET ac == Head(fleet)
             depreciation == Min(50000, ac.total_hours)
             aircraft_value ==
                 IF CatHas(ac.type_code)
                 THEN MulDivTrunc(aircraft_catalog[ac.type_code].price, 100000 - depreciation, 100000)
                 ELSE 0
         IN  aircraft_value + FleetValue(Tail(fleet))

RECURSIVE TotalDebt(_)
TotalDebt(loans) ==
    IF loans = <<>> THEN 0 ELSE Head(loans).remaining_balance + TotalDebt(Tail(loans))

calculate_max_loan_amount(d) ==
    LET cash_based_limit  == d.cash * 5
        asset_based_limit == FleetValue(d.fleet) \div 2
        \* rep_multiplier = 0.5 + (reputation / 100) * 1.5 = (1000 + 3 * tenths) / 2000
        max_loan == MulDivTrunc(cash_based_limit + asset_based_limit, 1000 + 3 * d.reputation, 2000)
        available_credit == Max(0, max_loan - TotalDebt(d.loans))
    IN  Max(10000, Min(50000000, available_credit))

\* the annuity payment int(P * r(1+r)^n / ((1+r)^n - 1)) with r = apr / 12 and
\* apr given in basis points, so r = apr_bp / 120000
LoanPayment(principal, apr_bp, term_months) ==
    LET r   == Rat(apr_bp, 120000)
        a   == r[1]
        b   == r[2]
        f   == Rat(a * Pow(a + b, term_months), b * (Pow(a + b, term_months) - Pow(b, term_months)))
    IN  MulDivTrunc(principal, f[1], f[2])

\* take_loan comparing the principal with calculate_max_loan_amount() alone
take_loan_ignoring_debt(d0, day, principal, apr_bp, term_months, nid) ==
    IF principal <= 0 THEN Raise(d0, "Principal must be positive")
    ELSE
    LET d == get_state(d0, day)
        max_loan == calculate_max_loan_amount(d)
    IN  IF principal > max_loan
        THEN Raise(d0, "Loan amount exceeds available credit")
        ELSE IF term_months = 0
        THEN Raise(d0, "ZeroDivisionError")
        ELSE
        LET payment == IF apr_bp = 0 THEN principal \div term_months
                       ELSE LoanPayment(principal, apr_bp, term_months)
            loan == [ loan_id            |-> nid,
                      principal          |-> principal,
                      interest_rate_apr  |-> apr_bp,
                      term_months        |-> term_months,
                      monthly_payment    |-> payment,
                      remaining_balance  |-> principal,
                      start_date         |-> day,
                      last_payment_month |-> -1 ]
            d1 == [d EXCEPT !.cash = d.cash + principal, !.loans = Append(d.loans, loan)]
        IN  OkIds(_add_ledger(d1, "loan", principal), "None", 1)

take_loan(d0, day, principal, apr_bp, term_months, nid) ==
    IF principal <= 0 THEN Raise(d0, "Principal must be positive")
    ELSE
    LET d == get_state(d0, day)
        max_loan == calculate_max_loan_amount(d)
        total_debt == TotalDebt(d.loans)
    IN  IF principal > max_loan - total_debt
        THEN Raise(d0, "Loan amount exceeds available credit")
        ELSE IF term_months = 0
        THEN Raise(d0, "ZeroDivisionError")
        ELSE
        LET payment == IF apr_bp = 0 THEN principal \div term_months
                       ELSE LoanPayment(principal, apr_bp, term_months)
            loan == [ loan_id            |-> nid,
                      principal          |-> principal,
                      interest_rate_apr  |-> apr_bp,
                      term_months        |-> term_months,
                      monthly_payment    |-> payment,
                      remaining_balance  |-> principal,
                      start_date         |-> day,
                      last_payment_month |-> -1 ]
            d1 == [d EXCEPT !.cash = d.cash + principal, !.loans = Append(d.loans, loan)]
        IN  OkIds(_add_ledger(d1, "loan", principal), "None", 1)

\* repay_loan that leaves a loan it paid off in the list
repay_loan_keeping_paid(d0, day, loan_id, amount_arg, use_default) ==
    LET d == get_state(d0, day)
        i == FirstIdx(d.loans, LAMBDA l : l.loan_id = loan_id)
    IN  IF i = 0 THEN Raise(d0, "Loan not found")
        ELSE
        LET loan == d.loans[i]
            amount0 == IF use_default THEN loan.monthly_payment ELSE amount_arg
            amount == Min(amount0, loan.remaining_balance)
        IN  IF amount0 <= 0 THEN Raise(d0, "Payment amount must be positive")
            ELSE IF amount > d.cash THEN Raise(d0, "Insufficient cash")
            ELSE Ok(_add_ledger([d EXCEPT !.loans[i].remaining_balance = @ - amount,
                                          !.cash = d.cash - amount],
                                "loan_payment", -amount), "None")

\* amount = 0 stands for the default argument None (the monthly payment)
repay_loan(d0, day, loan_id, amount_arg, use_default) ==
    LET d == get_state(d0, day)
        i == FirstIdx(d.loans, LAMBDA l : l.loan_id = loan_id)
    IN  IF i = 0 THEN Raise(d0, "Loan not found")
        ELSE
        LET loan == d.loans[i]
            amount0 == IF use_default THEN loan.monthly_payment ELSE amount_arg
        IN  IF amount0 <= 0 THEN Raise(d0, "Payment amount must be positive")
            ELSE
            LET remaining == loan.remaining_balance
                amount == IF amount0 > remaining THEN remaining ELSE amount0
            IN  IF amount > d.cash THEN Raise(d0, "Insufficient cash")
                ELSE
                LET paid == [loan EXCEPT !.remaining_balance = remaining - amount]
                    d1 == _add_ledger([d EXCEPT !.loans[i] = paid, !.cash = d.cash - amount],
                                      "loan_payment", -amount)
                    d2 == IF paid.remaining_balance <= 0
                          THEN [d1 EXCEPT !.loans = SelectSeq(d1.loans, LAMBDA l : l.loan_id /= loan_id)]
                          ELSE d1
                IN  Ok(d2, "None")

---------------------------------------------------------------------------
(* Fleet: purchase, lease, maintenance, parking, registration, cabin       *)

NoServices == [s \in ServiceTypes |-> 0]

\* the aircraft dict built by buy_aircraft / lease_aircraft; an aircraft without
\* oil tracking has has_oil = FALSE and zero oil fields (the keys are absent)
NewAircraft(aircraft_id, type_code, price, total_hours, reliability, h_a, h_b, h_c, leased) ==
    LET known == CatHas(type_code)
        capacity == IF known THEN aircraft_catalog[type_code].capacity ELSE 150
        max_seats_per_row == IF known THEN aircraft_catalog[type_code].max_seats_per_row ELSE 6
        max_rows == IF known THEN aircraft_catalog[type_code].max_rows ELSE 40
        oil == known /\ aircraft_catalog[type_code].has_oil
    IN  [ id                      |-> aircraft_id,
          type_code               |-> type_code,
          purchase_price          |-> price,
          total_hours             |-> total_hours,
          hours_since_maintenance |-> Max(h_a, Max(h_b, h_c)),
          maintenance_due_hours   |-> 3000,
          hours_since_a_check     |-> h_a,
          hours_since_b_check     |-> h_b,
          hours_since_c_check     |-> h_c,
          location                |-> "HOME",
          reliability             |-> Max(0, Min(1000000, reliability)),
          grounded                |-> FALSE,
          cabin_layout            |-> get_default_layout(capacity, max_seats_per_row, max_rows),
          is_leased               |-> leased,
          snags                   |-> <<>>,
          has_oil                 |-> oil,
          oil_level               |-> IF oil THEN aircraft_catalog[type_code].oil_capacity ELSE 0,
          oil_capacity            |-> IF oil THEN aircraft_catalog[type_code].oil_capacity ELSE 0,
          oil_minimum             |-> IF oil THEN aircraft_catalog[type_code].oil_minimum ELSE 0,
          hours_since_oil_refill  |-> 0,
          hours_since_oil_change  |-> 0,
          last_penalty_day        |-> 0,
          last_services           |-> NoServices,
          custom_items            |-> <<>> ]

buy_aircraft(d0, day, type_code, price, total_hours, initial_reliability, h_a, h_b, h_c, nid) ==
    LET d == get_state(d0, day)
    IN  IF price > d.cash THEN Raise(d0, "Insufficient cash")
        ELSE IF ~_has_available_parking(d, "HOME") THEN Raise(d0, "No available parking at HOME")
        ELSE
        LET aircraft == NewAircraft(nid, type_code, price, total_hours, initial_reliability,
                                    h_a, h_b, h_c, FALSE)
            d1 == [d EXCEPT !.cash = d.cash - price, !.fleet = Append(d.fleet, aircraft)]
        IN  OkIds(_add_ledger(d1, "purchase", -price), "None", 1)

lease_aircraft(d0, day, type_code, monthly_payment, term_months, nid) ==
    LET d == get_state(d0, day)
    IN  IF monthly_payment > d.cash THEN Raise(d0, "Insufficient cash for first month payment")
        ELSE IF ~_has_available_parking(d, "HOME") THEN Raise(d0, "No available parking at HOME")
        ELSE
        LET aircraft == NewAircraft(nid, type_code, 0, 0, 1000000, 0, 0, 0, TRUE)
            lease == [ lease_id           |-> nid + 1,
                       aircraft_id        |-> nid,
                       type_code          |-> type_code,
                       monthly_payment    |-> monthly_payment,
                       term_months        |-> term_months,
                       start_date         |-> day,
                       last_payment_month |-> -1 ]
            d1 == [d EXCEPT !.cash = d.cash - monthly_payment,
                            !.fleet = Append(d.fleet, aircraft),
                            !.leases = Append(d.leases, lease)]
        IN  OkIds(_add_ledger(d1, "lease", -monthly_payment), "None", 2)

MaintenanceCost(level) ==
    IF level = "A" THEN 50000 ELSE IF level = "B" THEN 200000 ELSE IF level = "C" THEN 800000 ELSE -1

\* MaintainedAircraft with an A check that un-grounds the aircraft as well
MaintainedAircraftUngroundedByA(aircraft, level) ==
    IF level = "A"
    THEN [aircraft EXCEPT !.hours_since_a_check = 0,
                          !.reliability = Min(1000000, aircraft.reliability + 50000),
                          !.grounded = FALSE,
                          !.snags = SelectSeq(aircraft.snags, LAMBDA s : s.severity /= "Minor")]
    ELSE IF level = "B"
    THEN [aircraft EXCEPT !.hours_since_b_check = 0,
                          !.reliability = Min(1000000, aircraft.reliability + 100000),
                          !.snags = SelectSeq(aircraft.snags, LAMBDA s : s.severity = "Critical")]
    ELSE [aircraft EXCEPT !.hours_since_c_check = 0,
                          !.reliability = Min(1000000, aircraft.reliability + 200000),
                          !.grounded = FALSE,
                          !.snags = <<>>,
                          !.oil_level = IF aircraft.has_oil THEN aircraft.oil_capacity ELSE @,
                          !.hours_since_oil_refill = 0,
                          !.hours_since_oil_change = 0]

\* MaintainedAircraft with a B check that clears every snag, Critical included
MaintainedAircraftClearingAll(aircraft, level) ==
    IF level = "A"
    THEN [aircraft EXCEPT !.hours_since_a_check = 0,
                          !.reliability = Min(1000000, aircraft.reliability + 50000),
                          !.snags = SelectSeq(aircraft.snags, LAMBDA s : s.severity /= "Minor")]
    ELSE IF level = "B"
    THEN [aircraft EXCEPT !.hours_since_b_check = 0,
                          !.reliability = Min(1000000, aircraft.reliability + 100000),
                          !.snags = <<>>]
    ELSE LET c == [aircraft EXCEPT !.hours_since_c_check = 0,
                                   !.reliability = Min(1000000, aircraft.reliability + 200000),
                                   !.grounded = FALSE,
                                   !.snags = <<>>]
         IN  IF aircraft.has_oil
             THEN [c EXCEPT !.oil_level = aircraft.oil_capacity,
                            !.hours_since_oil_refill = 0,
                            !.hours_since_oil_change = 0]
             ELSE c

\* the aircraft after a check of this level (level already upper-cased)
MaintainedAircraft(aircraft, level) ==
    IF level = "A"
    THEN [aircraft EXCEPT !.hours_since_a_check = 0,
                          !.reliability = Min(1000000, aircraft.reliability + 50000),
                          !.snags = SelectSeq(aircraft.snags, LAMBDA s : s.severity /= "Minor")]
    ELSE IF level = "B"
    THEN [aircraft EXCEPT !.hours_since_b_check = 0,
                          !.reliability = Min(1000000, aircraft.reliability + 100000),
                          !.snags = SelectSeq(aircraft.snags, LAMBDA s : s.severity = "Critical")]
    ELSE LET c == [aircraft EXCEPT !.hours_since_c_check = 0,
                                   !.reliability = Min(1000000, aircraft.reliability + 200000),
                                   !.grounded = FALSE,
                                   !.snags = <<>>]
         IN  IF aircraft.has_oil
             THEN [c EXCEPT !.oil_level = aircraft.oil_capacity,
                            !.hours_since_oil_refill = 0,
                            !.hours_since_oil_change = 0]
             ELSE c

\* perform_maintenance_level saving the charge before it checks the cash
perform_maintenance_level_charging_first(d0, day, aircraft_id, level) ==
    LET d == get_state(d0, day)
        i == AcIdx(d, aircraft_id)
        cost == MaintenanceCost(level)
    IN  IF i = 0 THEN Raise(d0, "Aircraft not found")
        ELSE IF cost < 0 THEN Raise(d0, "Invalid maintenance level")
        ELSE
        LET d1 == _add_ledger([d EXCEPT !.cash = d.cash - cost], "maintenance", -cost)
        IN  IF cost > d.cash THEN Raise(d1, "Insufficient cash")
            ELSE Ok([d1 EXCEPT !.fleet[i] = MaintainedAircraft(d.fleet[i], level)], "None")

perform_maintenance_level(d0, day, aircraft_id, level) ==
    LET d == get_state(d0, day)
        i == AcIdx(d, aircraft_id)
        cost == MaintenanceCost(level)
    IN  IF i = 0 THEN Raise(d0, "Aircraft not found")
        ELSE IF cost < 0 THEN Raise(d0, "Invalid maintenance level")
        ELSE IF cost > d.cash THEN Raise(d0, "Insufficient cash")
        ELSE
        LET d1 == [d EXCEPT !.fleet[i] = MaintainedAircraft(d.fleet[i], level),
                            !.cash = d.cash - cost]
        IN  Ok(_add_ledger(d1, "maintenance", -cost), "None")

\* parking spots and hangars are lists of names; only their lengths are read
buy_parking(d0, day, airport, add_spots, add_hangars) ==
    IF airport = "" THEN Raise(d0, "Airport code required")
    ELSE IF add_spots < 0 \/ add_hangars < 0 THEN Raise(d0, "Cannot buy negative quantities")
    ELSE
    LET d == get_state(d0, day)
        cost == add_spots * 100000 + add_hangars * 750000
    IN  IF cost > d.cash THEN Raise(d0, "Insufficient cash")
        ELSE
        LET info == d.parking[airport]
            d1 == [d EXCEPT !.parking[airport] = [spots |-> info.spots + add_spots,
                                                  hangars |-> info.hangars + add_hangars],
                            !.cash = d.cash - cost]
        IN  Ok(_add_ledger(d1, "parking", -cost), "None")

change_aircraft_id(d0, day, aircraft_id, new_id) ==
    LET d == get_state(d0, day)
        i == AcIdx(d, aircraft_id)
    IN  IF i = 0 THEN Raise(d0, "Aircraft not found")
        ELSE IF AcIdx(d, new_id) /= 0 THEN Raise(d0, "Aircraft ID already exists")
        ELSE IF d.cash < 5000 THEN Raise(d0, "Insufficient cash")
        ELSE
        LET d1 == [d EXCEPT !.fleet[i].id = new_id, !.cash = d.cash - 5000]
        IN  Ok(_add_ledger(d1, "admin", -5000), "None")

\* aircraft_config overrides are not set by any modelled operation, so the
\* limits are the catalog's
get_aircraft_cabin_limits(d, aircraft_id) ==
    LET ac == d.fleet[AcIdx(d, aircraft_id)]
        known == CatHas(ac.type_code)
    IN  [ max_seats_per_row |-> IF known THEN aircraft_catalog[ac.type_code].max_seats_per_row ELSE 6,
          max_rows          |-> IF known THEN aircraft_catalog[ac.type_code].max_rows ELSE 40 ]

configure_aircraft_cabin(d0, day, aircraft_id, layout) ==
    LET d == get_state(d0, day)
        i == AcIdx(d, aircraft_id)
    IN  IF i = 0 THEN Raise(d0, "Aircraft not found")
        ELSE
        LET limits == get_aircraft_cabin_limits(d, aircraft_id)
        IN  IF Len(layout) > limits.max_rows THEN Raise(d0, "Too many rows")
            ELSE IF \E r \in 1..Len(layout) : RowSeats(layout[r], 0) > limits.max_seats_per_row
            THEN Raise(d0, "Row has too many seats")
            ELSE
            LET cost == calculate_cabin_cost(layout)
            IN  IF cost > d.cash THEN Raise(d0, "Insufficient cash")
                ELSE
                LET d1 == [d EXCEPT !.fleet[i].cabin_layout = layout, !.cash = d.cash - cost]
                IN  Ok(_add_ledger(d1, "cabin", -cost), "None")

---------------------------------------------------------------------------
(* Airport services, custom items, pilots                                  *)

AIRPORT_SERVICES ==
    [ refueling    |-> [base_cost |-> 0,     cost_per_hour |-> 0],
      deicing      |-> [base_cost |-> 500,   cost_per_hour |-> 50],
      catering     |-> [base_cost |-> 800,   cost_per_hour |-> 100],
      ground_power |-> [base_cost |-> 300,   cost_per_hour |-> 30],
      lavatory     |-> [base_cost |-> 200,   cost_per_hour |-> 20],
      water        |-> [base_cost |-> 150,   cost_per_hour |-> 15],
      cleaning     |-> [base_cost |-> 400,   cost_per_hour |-> 40],
      livery       |-> [base_cost |-> 50000, cost_per_hour |-> 0] ]

\* price per litre in cents: round(0.75 * (1 + (md5(code) % 4000) / 10000 - 0.2), 2),
\* tabulated for the airports of the model
get_fuel_prices(airport_code) ==
    IF airport_code = "HOME" THEN 78 ELSE IF airport_code = "JFK" THEN 76 ELSE 70

HourlyCost(type_code) ==
    IF CatHas(type_code) THEN aircraft_catalog[type_code].hourly_cost ELSE 2000

\* quantity in litres; quantity = 0 also stands for None
purchase_airport_service(d0, day, aircraft_id, service_type, quantity) ==
    IF service_type \notin DOMAIN AIRPORT_SERVICES THEN Raise(d0, "Unknown service type")
    ELSE
    LET d == get_state(d0, day)
        i == AcIdx(d, aircraft_id)
    IN  IF i = 0 THEN Raise(d0, "Aircraft not found")
        ELSE IF service_type = "refueling" /\ quantity <= 0 THEN Raise(d0, "Quantity must be specified")
        ELSE
        LET aircraft == d.fleet[i]
            service == AIRPORT_SERVICES[service_type]
            cost == IF service_type = "refueling"
                    THEN TruncDiv(quantity * get_fuel_prices(aircraft.location), 100)
                    ELSE IF service_type = "livery"
                    THEN (IF service.base_cost > 0 THEN service.base_cost ELSE 50000)
                    ELSE IF service.base_cost > 0 /\ service.cost_per_hour > 0
                    THEN service.base_cost
                         + TruncDiv(service.cost_per_hour * HourlyCost(aircraft.type_code), 100)
                    ELSE (IF service.base_cost > 0 THEN service.base_cost ELSE 1000)
        IN  IF cost > d.cash THEN Raise(d0, "Insufficient cash")
            ELSE
            LET d1 == _add_ledger([d EXCEPT !.cash = d.cash - cost], "airport_service", -cost)
            IN  Ok([d1 EXCEPT !.fleet[i].last_services[service_type] = day], "None")

get_aircraft_services(d, aircraft_id) ==
    LET i == AcIdx(d, aircraft_id)
    IN  IF i = 0 THEN NoServices ELSE d.fleet[i].last_services

\* a service bought less than 24 h ago
RecentService(services, service_type, day) == services[service_type] > day - 1

\* installed_on = 0 stands for None (a stored item)
purchase_custom_item(d0, day, airport, cost, nid) ==
    IF airport = "" THEN Raise(d0, "Airport code required")
    ELSE IF cost <= 0 THEN Raise(d0, "Cost must be greater than 0")
    ELSE
    LET d == get_state(d0, day)
    IN  IF ~has_hangar_at_airport(d0, airport) THEN Raise(d0, "No hangar owned")
        ELSE IF cost > d.cash THEN Raise(d0, "Insufficient cash")
        ELSE
        LET custom_item == [item_id |-> nid, cost |-> cost, airport |-> airport, installed_on |-> 0]
            d1 == [d EXCEPT !.custom_items = Append(d.custom_items, custom_item),
                            !.cash = d.cash - cost]
        IN  OkIds(_add_ledger(d1, "custom_item", -cost), nid, 1)

ItemIdx(d, item_id) == FirstIdx(d.custom_items, LAMBDA it : it.item_id = item_id)

\* install_custom_item without the same-airport check
install_custom_item_anywhere(d0, day, item_id, aircraft_id) ==
    LET d == get_state(d0, day)
        k == ItemIdx(d, item_id)
    IN  IF k = 0 THEN Raise(d0, "Custom item not found")
        ELSE IF d.custom_items[k].installed_on /= 0 THEN Raise(d0, "Item is already installed")
        ELSE
        LET i == AcIdx(d, aircraft_id)
        IN  IF i = 0 THEN Raise(d0, "Aircraft not found")
            ELSE Ok([d EXCEPT !.custom_items[k].installed_on = aircraft_id,
                              !.fleet[i].custom_items = Append(d.fleet[i].custom_items, item_id)],
                    "None")

install_custom_item(d0, day, item_id, aircraft_id) ==
    LET d == get_state(d0, day)
        k == ItemIdx(d, item_id)
    IN  IF k = 0 THEN Raise(d0, "Custom item not found")
        ELSE IF d.custom_items[k].installed_on /= 0 THEN Raise(d0, "Item is already installed")
        ELSE
        LET i == AcIdx(d, aircraft_id)
        IN  IF i = 0 THEN Raise(d0, "Aircraft not found")
            ELSE IF d.custom_items[k].airport /= d.fleet[i].location
            THEN Raise(d0, "They must be at the same airport")
            ELSE Ok([d EXCEPT !.custom_items[k].installed_on = aircraft_id,
                              !.fleet[i].custom_items = Append(d.fleet[i].custom_items, item_id)],
                    "None")

\* list.remove(x): the list without the first occurrence of x
RemoveFirst(s, x) ==
    LET j == FirstIdx(s, LAMBDA y : y = x) IN IF j = 0 THEN s ELSE RemoveAt(s, j)

uninstall_custom_item(d0, day, item_id) ==
    LET d == get_state(d0, day)
        k == ItemIdx(d, item_id)
    IN  IF k = 0 THEN Raise(d0, "Custom item not found")
        ELSE IF d.custom_items[k].installed_on = 0 THEN Raise(d0, "Item is not installed")
        ELSE
        LET i == AcIdx(d, d.custom_items[k].installed_on)
            d1 == IF i = 0 THEN d
                  ELSE [d EXCEPT !.fleet[i].custom_items = RemoveFirst(d.fleet[i].custom_items, item_id)]
        IN  Ok([d1 EXCEPT !.custom_items[k].installed_on = 0], "None")

\* assigned_aircraft_id = 0 stands for None; has_name is "name.strip() is not empty"
hire_pilot(d0, day, has_name, skill_level, nid) ==
    IF ~has_name THEN Raise(d0, "Pilot name required")
    ELSE IF skill_level < 1 \/ skill_level > 5 THEN Raise(d0, "Skill level must be between 1 and 5")
    ELSE
    LET d == get_state(d0, day)
        pilot == [ pilot_id             |-> nid,
                   skill_level          |-> skill_level,
                   salary               |-> 5000 + skill_level * 2000,
                   assigned_aircraft_id |-> 0 ]
    IN  OkIds([d EXCEPT !.pilots = Append(d.pilots, pilot)], "None", 1)

\* aircraft_id = 0 stands for None (unassign)
assign_pilot_to_aircraft(d0, day, pilot_id, aircraft_id) ==
    LET d == get_state(d0, day)
        p == FirstIdx(d.pilots, LAMBDA x : x.pilot_id = pilot_id)
    IN  IF p = 0 THEN Raise(d0, "Pilot not found")
        ELSE IF aircraft_id /= 0 /\ AcIdx(d, aircraft_id) = 0 THEN Raise(d0, "Aircraft not found")
        ELSE Ok([d EXCEPT !.pilots[p].assigned_aircraft_id = aircraft_id], "None")

fire_pilot(d0, day, pilot_id) ==
    LET d == get_state(d0, day)
    IN  Ok([d EXCEPT !.pilots = SelectSeq(d.pilots, LAMBDA x : x.pilot_id /= pilot_id)], "None")

---------------------------------------------------------------------------
(* Oil, snags, grounding, preflight                                        *)

refill_aircraft_oil(d0, day, aircraft_id) ==
    LET d == get_state(d0, day)
        i == AcIdx(d, aircraft_id)
    IN  IF i = 0 THEN Raise(d0, "Aircraft not found")
        ELSE IF ~d.fleet[i].has_oil THEN Raise(d0, "No manual oil refills")
        ELSE
        LET aircraft == d.fleet[i]
            oil_needed == aircraft.oil_capacity - aircraft.oil_level
            cost == TruncDiv(oil_needed * 50, 1000)
        IN  IF oil_needed <= 0 THEN Ok(d0, "None")
            ELSE IF cost > d.cash THEN Raise(d0, "Insufficient cash")
            ELSE
            LET d1 == [d EXCEPT !.fleet[i].oil_level = aircraft.oil_capacity,
                                !.fleet[i].hours_since_oil_refill = 0,
                                !.cash = d.cash - cost]
            IN  Ok(_add_ledger(d1, "oil", -cost), "None")

change_aircraft_oil(d0, day, aircraft_id) ==
    LET d == get_state(d0, day)
        i == AcIdx(d, aircraft_id)
    IN  IF i = 0 THEN Raise(d0, "Aircraft not found")
        ELSE IF ~d.fleet[i].has_oil THEN Raise(d0, "No manual oil changes")
        ELSE
        LET aircraft == d.fleet[i]
            cost == TruncDiv(aircraft.oil_capacity * 100, 1000)
        IN  IF cost > d.cash THEN Raise(d0, "Insufficient cash")
            ELSE
            LET d1 == [d EXCEPT !.fleet[i].oil_level = aircraft.oil_capacity,
                                !.fleet[i].hours_since_oil_refill = 0,
                                !.fleet[i].hours_since_oil_change = 0,
                                !.cash = d.cash - cost]
            IN  Ok(_add_ledger(d1, "oil", -cost), "None")

\* whether random.random() < base_probability can come out true
SnagPossible(aircraft) ==
    \/ aircraft.reliability < 1000000
    \/ aircraft.hours_since_a_check > MAINTENANCE_INTERVALS.A
    \/ aircraft.hours_since_b_check > MAINTENANCE_INTERVALS.B
    \/ aircraft.hours_since_c_check > MAINTENANCE_INTERVALS.C

\* found: the random draw discovered a snag of this severity (its id is nid); the
\* document is saved only then, and for an oil-tracked aircraft the save carries
\* the oil level recomputed from hours_since_oil_refill.  The tire wear is set
\* after the save and never reaches the disk.
walkaround_check(d0, day, aircraft_id, found, severity, mel, nid) ==
    LET d == get_state(d0, day)
        i == AcIdx(d, aircraft_id)
    IN  IF i = 0 THEN Raise(d0, "Aircraft not found")
        ELSE
        LET aircraft == d.fleet[i]
            tracks == CatHas(aircraft.type_code) /\ aircraft_catalog[aircraft.type_code].has_oil
            current_oil == Max(0, aircraft.oil_capacity - aircraft.hours_since_oil_refill * 11)
            new_snag == [snag_id |-> nid, severity |-> severity, mel |-> mel]
            snagged == [aircraft EXCEPT !.snags = Append(aircraft.snags, new_snag)]
        IN  IF found /\ SnagPossible(aircraft)
            THEN OkIds([d EXCEPT !.fleet[i] = IF tracks
                                              THEN [snagged EXCEPT !.oil_level = current_oil]
                                              ELSE snagged],
                       Len(aircraft.snags) + 1, 1)
            ELSE Ok(d0, Len(aircraft.snags))

clear_snag(d0, day, aircraft_id, snag_id) ==
    LET d == get_state(d0, day)
        i == AcIdx(d, aircraft_id)
    IN  IF i = 0 THEN Raise(d0, "Aircraft not found")
        ELSE Ok([d EXCEPT !.fleet[i].snags = SelectSeq(d.fleet[i].snags, LAMBDA s : s.snag_id /= snag_id)],
                "None")

ground_aircraft(d0, day, aircraft_id) ==
    LET d == get_state(d0, day)
        i == AcIdx(d, aircraft_id)
    IN  IF i = 0 THEN Raise(d0, "Aircraft not found")
        ELSE Ok([d EXCEPT !.fleet[i].grounded = TRUE], "None")

\* read-only on disk: the grounded flag it sets on an overdue C check is never
\* saved.  Returns "failed".
preflight_check(d0, day, aircraft_id, flight_hours) ==
    LET d == get_state(d0, day)
        i == AcIdx(d, aircraft_id)
    IN  IF i = 0 THEN Raise(d0, "Aircraft not found")
        ELSE
        LET aircraft == d.fleet[i]
            c_hours == aircraft.hours_since_c_check
            limit == (MAINTENANCE_INTERVALS.C * 12) \div 10
        IN  IF aircraft.grounded THEN Ok(d0, TRUE)
            ELSE IF c_hours > limit THEN Ok(d0, TRUE)
            ELSE IF flight_hours > 0 /\ c_hours + flight_hours > limit THEN Ok(d0, TRUE)
            ELSE Ok(d0, FALSE)

---------------------------------------------------------------------------
(* Flights                                                                 *)

\* datetime.now().month, with the calendar taken as twelve 30-day months
MonthOf(day) == ((day \div 30) % 12) + 1

\* in tenths
get_seasonal_demand_multiplier(day) ==
    LET month == MonthOf(day)
    IN  IF month \in {12, 1} THEN 13
        ELSE IF month \in {6, 7, 8} THEN 12
        ELSE IF month = 2 THEN 9
        ELSE 10

RatClamp(x, lo, hi) == IF RatLess(x, lo) THEN lo ELSE IF RatLess(hi, x) THEN hi ELSE x

\* max(15.0, hourly_cost / cap * 2.0) * 3.5
BaselinePerHourPerSeat(hourly_cost, cap) ==
    IF cap > 0 /\ 2 * hourly_cost > 15 * cap THEN Rat(7 * hourly_cost, cap) ELSE Rat(105, 2)

\* DemandRatio with the price ratio upside down (ticket_price / baseline)
DemandRatioInverted(hourly_cost, cap, comfort, duration_hours, ticket_price, seasonal_mult) ==
    LET n == comfort[1]
        d == comfort[2]
        baseline == RatMul(RatMul(BaselinePerHourPerSeat(hourly_cost, cap), Rat(duration_hours, 10)),
                           Rat(n + d, 2 * d))
        comfort_boost == Rat(17 * d + 3 * n, 20 * d)
        price_ratio == IF ticket_price > 0
                       THEN RatMul(Rat(ticket_price, 1), Rat(baseline[2], baseline[1]))
                       ELSE Rat(1, 10)
    IN  RatMul(RatClamp(RatMul(price_ratio, comfort_boost), Rat(1, 10), Rat(1, 1)),
               Rat(seasonal_mult, 10))

\* the demand model of start_flight: demand_ratio for a cabin of cap seats with
\* the given comfort (a rational), a flight of duration_hours tenths and the
\* seasonal multiplier in tenths; an exact rational
DemandRatio(hourly_cost, cap, comfort, duration_hours, ticket_price, seasonal_mult) ==
    LET n == comfort[1]
        d == comfort[2]
        baseline == RatMul(RatMul(BaselinePerHourPerSeat(hourly_cost, cap), Rat(duration_hours, 10)),
                           Rat(n + d, 2 * d))
        comfort_boost == Rat(17 * d + 3 * n, 20 * d)
        price_ratio == IF ticket_price > 0 THEN RatMul(baseline, Rat(1, ticket_price))
                       ELSE Rat(1, 10)
    IN  RatMul(RatClamp(RatMul(price_ratio, comfort_boost), Rat(1, 10), Rat(1, 1)),
               Rat(seasonal_mult, 10))

\* recent catering lifts the passengers by 10 %, recent cleaning by 5 %, up to cap
ServiceBoost(passengers, cap, percent, recent) ==
    IF recent THEN Min(cap, TruncDiv(passengers * percent, 100)) ELSE passengers

DemandPassengers(hourly_cost, cap, comfort, duration_hours, ticket_price, seasonal_mult, catering, cleaning) ==
    ServiceBoost(
        ServiceBoost(
            Max(0, Min(RoundHalfEven(RatMul(Rat(cap, 1),
                                            DemandRatio(hourly_cost, cap, comfort, duration_hours,
                                                        ticket_price, seasonal_mult))),
                       cap)),
            cap, 110, catering),
        cap, 105, cleaning)

\* cap = the seats of the layout, else the catalog capacity, else 150
FlightCapacity(aircraft) ==
    LET actual_capacity == calculate_cabin_total_seats(aircraft.cabin_layout)
    IN  IF actual_capacity > 0 THEN actual_capacity
        ELSE IF CatHas(aircraft.type_code) THEN aircraft_catalog[aircraft.type_code].capacity
        ELSE 150

\* (skill_level - 1) * 0.5 of the first pilot assigned to the aircraft, in tenths
PilotSkillBonus(d, aircraft_id) ==
    LET p == FirstIdx(d.pilots, LAMBDA x : x.assigned_aircraft_id = aircraft_id)
    IN  IF p = 0 THEN 0 ELSE (d.pilots[p].skill_level - 1) * 5

\* route "<origin>-<dest>"; the weight manifest, eta and baseline price of the
\* flight record are not read by any engine operation and are left out
start_flight(d0, day, aircraft_id, dest, ticket_price, duration_hours, nid) ==
    LET d == get_state(d0, day)
        i == AcIdx(d, aircraft_id)
    IN  IF i = 0 THEN Raise(d0, "Aircraft not found")
        ELSE
        LET aircraft == d.fleet[i]
            cap == FlightCapacity(aircraft)
            comfort == calculate_cabin_comfort(aircraft.cabin_layout)
            aircraft_services == get_aircraft_services(d0, aircraft_id)
            passengers == DemandPassengers(HourlyCost(aircraft.type_code), cap, comfort,
                                           duration_hours, ticket_price,
                                           get_seasonal_demand_multiplier(day),
                                           RecentService(aircraft_services, "catering", day),
                                           RecentService(aircraft_services, "cleaning", day))
            flight == [ flight_id         |-> nid,
                        aircraft_id       |-> aircraft_id,
                        dest              |-> dest,
                        duration_hours    |-> duration_hours,
                        passengers        |-> passengers,
                        ticket_price      |-> ticket_price,
                        pax_requested     |-> cap,
                        cabin_comfort     |-> comfort,
                        pilot_skill_bonus |-> PilotSkillBonus(d, aircraft_id) ]
        IN  OkIds([d EXCEPT !.active_flights = Append(d.active_flights, flight)], passengers, 1)

FlightIdx(d, flight_id) == FirstIdx(d.active_flights, LAMBDA f : f.flight_id = flight_id)

cancel_flight(d0, day, flight_id) ==
    LET d == get_state(d0, day)
        idx == FlightIdx(d, flight_id)
    IN  IF idx = 0 THEN Raise(d0, "Flight not found")
        ELSE
        LET flight == d.active_flights[idx]
            refund_cost == TruncDiv(flight.passengers * flight.ticket_price, 10)
            reputation_penalty == -5 * flight.passengers
            d1 == update_reputation(reputation_penalty,
                                    [d EXCEPT !.active_flights = RemoveAt(d.active_flights, idx)])
            d2 == [d1 EXCEPT !.cash = d1.cash - refund_cost]
        IN  Ok(_add_ledger(d2, "flight_cancellation", -refund_cost), refund_cost)

\* questionnaire answers: given is "the dict is not None and not empty"; a key
\* is present when its has_ flag is set; custom_rep_change is in tenths
NoAnswers ==
    [ given |-> FALSE, has_touchdown |-> FALSE, touchdown_fpm |-> 0,
      has_timing |-> FALSE, departure_timing |-> 0,
      has_custom |-> FALSE, custom_rep_change |-> 0 ]

\* flight_quality_answers and (answers.get("touchdown_fpm") or answers.get("departure_timing")):
\* a present answer of 0 is falsy
AnswersCount(answers) ==
    /\ answers.given
    /\ \/ answers.has_touchdown /\ answers.touchdown_fpm /= 0
       \/ answers.has_timing /\ answers.departure_timing /= 0

_calculate_reputation_from_answers(answers) ==
    LET fpm == answers.touchdown_fpm
        abs_minutes == Abs(answers.departure_timing)
        touchdown == IF ~answers.has_touchdown THEN 0
                     ELSE IF fpm <= 200 THEN 20
                     ELSE IF fpm <= 400 THEN 10
                     ELSE IF fpm <= 600 THEN 0
                     ELSE IF fpm <= 800 THEN -10
                     ELSE -20
        timing    == IF ~answers.has_timing THEN 0
                     ELSE IF abs_minutes = 0 THEN 10
                     ELSE IF abs_minutes <= 5 THEN 5
                     ELSE IF abs_minutes <= 15 THEN 0
                     ELSE IF abs_minutes <= 30 THEN -5
                     ELSE IF abs_minutes <= 60 THEN -10
                     ELSE -20
        custom    == IF ~answers.has_custom THEN 0
                     ELSE Max(-50, Min(50, answers.custom_rep_change))
    IN  touchdown + timing + custom

\* reputation_impact in tenths; high picks the upper end of the random.uniform
\* range of the feedback type, otherwise the lower end
generate_passenger_feedback(new_reputation, pax_boarded, pax_requested, cabin_comfort, high) ==
    LET load_80 == pax_requested > 0 /\ pax_boarded * 100 >= 80 * pax_requested
        load_60 == pax_requested > 0 /\ pax_boarded * 100 >= 60 * pax_requested
        load_lt_40 == ~(pax_requested > 0 /\ pax_boarded * 100 >= 40 * pax_requested)
    IN  IF new_reputation >= 800 /\ load_80 /\ ~RatLess(cabin_comfort, Rat(12, 10))
        THEN (IF high THEN 3 ELSE 1)
        ELSE IF new_reputation >= 600 /\ load_60
        THEN (IF high THEN 1 ELSE 0)
        ELSE IF new_reputation < 400 \/ load_lt_40
        THEN (IF high THEN -1 ELSE -5)
        ELSE 0

---------------------------------------------------------------------------
(* Achievements                                                            *)

AchievementIds ==
    << "first_flight", "ten_flights", "hundred_flights", "first_aircraft", "fleet_of_five",
       "millionaire", "five_million", "reputation_50", "reputation_80", "first_pilot",
       "pilot_team" >>

\* the check lambda of each achievement definition
AchievementCheck(id, s) ==
    CASE id = "first_flight"    -> Len(s.completed_flights) >= 1
      [] id = "ten_flights"     -> Len(s.completed_flights) >= 10
      [] id = "hundred_flights" -> Len(s.completed_flights) >= 100
      [] id = "first_aircraft"  -> Len(s.fleet) >= 1
      [] id = "fleet_of_five"   -> Len(s.fleet) >= 5
      [] id = "millionaire"     -> s.cash >= 1000000
      [] id = "five_million"    -> s.cash >= 5000000
      [] id = "reputation_50"   -> s.reputation >= 500
      [] id = "reputation_80"   -> s.reputation >= 800
      [] id = "first_pilot"     -> Len(s.pilots) >= 1
      [] id = "pilot_team"      -> Len(s.pilots) >= 5

\* the ids newly earned in state s, in definition order
NewAchievements(s) ==
    SelectSeq(AchievementIds, LAMBDA id : id \notin Range(s.achievements) /\ AchievementCheck(id, s))

\* loads the document from disk, appends the newly earned ids and saves if
\* there are any; returns the newly earned ids
check_and_award_achievements(d0, day) ==
    LET state == get_state(d0, day)
        new_achievements == NewAchievements(state)
    IN  IF new_achievements /= <<>>
        THEN Ok([state EXCEPT !.achievements = state.achievements \o new_achievements],
                new_achievements)
        ELSE Ok(d0, new_achievements)

---------------------------------------------------------------------------
(* end_flight                                                              *)

CompletedCap == 1000

\* int(hourly_cost * flight_hours * cost_multiplier): a recent refueling takes
\* 5 % off, recent ground power 2 %, times the fuel price multiplier on disk
FlightCost(d, aircraft_id, hourly_cost, flight_hours, day) ==
    LET aircraft_services == get_aircraft_services(d, aircraft_id)
        cost_multiplier == 100
                           - (IF RecentService(aircraft_services, "refueling", day) THEN 5 ELSE 0)
                           - (IF RecentService(aircraft_services, "ground_power", day) THEN 2 ELSE 0)
    IN  MulDivTrunc(hourly_cost * flight_hours, cost_multiplier * d.fuel_price_multiplier, 100000)

\* The steps of end_flight on the aircraft work on f = [aircraft, penalty].
\* Reliability steps that are not whole millionths are truncated.

\* the flight hours go onto every counter; an oil-tracked aircraft burns 0.11 qt/h
AddFlightHours(aircraft, flight_hours) ==
    [aircraft EXCEPT
       !.hours_since_maintenance = @ + flight_hours,
       !.hours_since_a_check = @ + flight_hours,
       !.hours_since_b_check = @ + flight_hours,
       !.hours_since_c_check = @ + flight_hours,
       !.hours_since_oil_refill = IF aircraft.has_oil THEN @ + flight_hours ELSE @,
       !.hours_since_oil_change = IF aircraft.has_oil THEN @ + flight_hours ELSE @,
       !.oil_level = IF aircraft.has_oil THEN Max(0, @ - flight_hours * 11) ELSE @]

\* oil change interval 50 h: fined when overdue and something is wrong
OilChangeOverdue(f) ==
    LET h == f.aircraft.hours_since_oil_change
    IN  IF f.aircraft.has_oil /\ h > 500
           /\ (Len(f.aircraft.snags) > 0 \/ f.aircraft.reliability < 900000)
        THEN [ aircraft |-> [f.aircraft EXCEPT !.reliability = Max(0, @ - 20 * (h - 500))],
               penalty  |-> f.penalty + 10 * (h - 500) ]
        ELSE f

ACheckOverdue(f) ==
    LET a_hours == f.aircraft.hours_since_a_check
        a_interval == MAINTENANCE_INTERVALS.A
    IN  IF a_hours >= a_interval /\ 10 * a_hours > 12 * a_interval
        THEN [ aircraft |-> [f.aircraft EXCEPT !.reliability =
                                Max(0, @ - MulDivTrunc(20000, a_hours - a_interval, a_interval))],
               penalty  |-> f.penalty + MulDivTrunc(5000, a_hours - a_interval, a_interval) ]
        ELSE f

BCheckOverdue(f) ==
    LET b_hours == f.aircraft.hours_since_b_check
        b_interval == MAINTENANCE_INTERVALS.B
    IN  IF b_hours >= b_interval /\ 10 * b_hours > 11 * b_interval
        THEN [ aircraft |-> [f.aircraft EXCEPT !.reliability =
                                Max(0, @ - MulDivTrunc(50000, b_hours - b_interval, b_interval))],
               penalty  |-> f.penalty + MulDivTrunc(15000, b_hours - b_interval, b_interval) ]
        ELSE f

\* past 1.2 x the interval the aircraft is grounded
CCheckOverdue(f) ==
    LET c_hours == f.aircraft.hours_since_c_check
        c_interval == MAINTENANCE_INTERVALS.C
    IN  IF c_hours >= c_interval /\ 100 * c_hours > 105 * c_interval
        THEN [ aircraft |-> [f.aircraft EXCEPT
                                !.reliability =
                                    Max(0, @ - MulDivTrunc(150000, c_hours - c_interval, c_interval)),
                                !.grounded = IF 10 * c_hours > 12 * c_interval THEN TRUE ELSE @],
               penalty  |-> f.penalty + MulDivTrunc(50000, c_hours - c_interval, c_interval) ]
        ELSE f

\* legacy maintenance check: past 1.5 x maintenance_due_hours the reliability
\* drops, and below 0.5 the aircraft is grounded
LegacyMaintenance(f) ==
    LET hsm == f.aircraft.hours_since_maintenance
        due == f.aircraft.maintenance_due_hours
        reliability == Max(0, f.aircraft.reliability - MulDivTrunc(100000, 2 * hsm - 3 * due, 2 * due))
    IN  IF hsm > due /\ 2 * hsm > 3 * due
        THEN [ aircraft |-> [f.aircraft EXCEPT !.reliability = reliability,
                                                !.grounded = IF reliability < 500000 THEN TRUE ELSE @],
               penalty  |-> f.penalty ]
        ELSE f

\* hours, oil and the overdue-maintenance repercussions of one flight
FlownAircraft(aircraft0, flight_hours) ==
    LegacyMaintenance(CCheckOverdue(BCheckOverdue(ACheckOverdue(OilChangeOverdue(
        [aircraft |-> AddFlightHours(aircraft0, flight_hours), penalty |-> 0])))))

\* what end_flight returns, as far as the model reads it
FlightResult(net, penalty, reputation_change, new_reputation, grounded, new_achievements) ==
    [ net |-> net, penalty |-> penalty, reputation_change |-> reputation_change,
      new_reputation |-> new_reputation, grounded |-> grounded,
      new_achievements |-> new_achievements ]

\* aircraft missing: revenue and cost go to cash, the reputation moves by the
\* answers plus the pilot skill bonus; nothing else is recorded
EndFlightMissing(state, flight, answers, revenue, cost) ==
    IF AnswersCount(answers)
    THEN LET reputation_change ==
                 _calculate_reputation_from_answers(answers) + flight.pilot_skill_bonus
             new_reputation == update_reputation(reputation_change, state).reputation
             net == (revenue - cost + calculate_reputation_bonus(new_reputation, revenue)) * 3
         IN  Ok([state EXCEPT !.reputation = new_reputation, !.cash = @ + net],
                FlightResult(net, 0, reputation_change, new_reputation, FALSE, <<>>))
    ELSE LET net == (revenue - cost) * 3
         IN  Ok([state EXCEPT !.cash = @ + net],
                FlightResult(net, 0, 0, state.reputation, FALSE, <<>>))

\* the reputation after the questionnaire: e = [state, change]
AnswersStep(state, answers) ==
    IF AnswersCount(answers)
    THEN [ state  |-> update_reputation(_calculate_reputation_from_answers(answers), state),
           change |-> _calculate_reputation_from_answers(answers) ]
    ELSE [state |-> state, change |-> 0]

\* the reputation after the passenger feedback
FeedbackStep(e, flight, high) ==
    LET impact == generate_passenger_feedback(e.state.reputation, flight.passengers,
                                              flight.pax_requested, flight.cabin_comfort, high)
    IN  IF impact /= 0
        THEN [state |-> update_reputation(impact, e.state), change |-> e.change + impact]
        ELSE e

\* cash, the completed-flight record and the ledger entry
SettleFlight(state, day, flight, revenue, cost, net) ==
    LET completed == Append(state.completed_flights,
                            [ day |-> day, dest |-> flight.dest, revenue |-> revenue,
                              cost |-> cost, passengers |-> flight.passengers,
                              capacity |-> flight.pax_requested ])
    IN  _add_ledger([state EXCEPT !.cash = @ + net,
                                  !.completed_flights = IF Len(completed) > CompletedCap
                                                        THEN LastN(completed, CompletedCap)
                                                        ELSE completed],
                    "flight", net)

\* the normal branch from the reputation on: e is the state with the aircraft
\* flown and moved, after the questionnaire and the feedback.
\* check_and_award_achievements() works on the document on disk, which is still
\* d0; what it saves is overwritten by the save that ends end_flight.
EndFlightSettle(d0, day, e, flight, revenue, cost, penalty, grounded) ==
    LET net == (revenue - cost - penalty
                + calculate_reputation_bonus(e.state.reputation, revenue)) * 3
    IN  Ok(SettleFlight(e.state, day, flight, revenue, cost, net),
           FlightResult(net, penalty, e.change, e.state.reputation, grounded,
                        check_and_award_achievements(d0, day).ret))

\* the normal branch: the aircraft flies, pays for overdue maintenance and
\* moves to flight.get("dest") or its own location
EndFlightNormal(d0, day, state, i, flight, answers, high, flown, revenue, cost) ==
    EndFlightSettle(d0, day,
                    FeedbackStep(AnswersStep(
                        [state EXCEPT !.fleet[i] =
                            [flown.aircraft EXCEPT !.location =
                                IF flight.dest /= "" THEN flight.dest ELSE @]],
                        answers), flight, high),
                    flight, revenue, cost, flown.penalty, flown.aircraft.grounded)

EndFlightFound(d0, day, state, i, flight, answers, high, revenue, cost) ==
    IF i = 0 THEN EndFlightMissing(state, flight, answers, revenue, cost)
    ELSE EndFlightNormal(d0, day, state, i, flight, answers, high,
                         FlownAircraft(state.fleet[i], flight.duration_hours), revenue, cost)

\* high: the draw of the passenger feedback (see generate_passenger_feedback)
end_flight(d0, day, flight_id, answers, high) ==
    LET idx == FlightIdx(get_state(d0, day), flight_id)
    IN  IF idx = 0 THEN Raise(d0, "Flight not found")
        ELSE
        LET flight == get_state(d0, day).active_flights[idx]
            state == [get_state(d0, day) EXCEPT !.active_flights = RemoveAt(@, idx)]
            i == AcIdx(get_state(d0, day), flight.aircraft_id)
            hourly_cost == IF i = 0 THEN 2000 ELSE HourlyCost(get_state(d0, day).fleet[i].type_code)
        IN  EndFlightFound(d0, day, state, i, flight, answers, high,
                           flight.passengers * flight.ticket_price,
                           FlightCost(d0, flight.aircraft_id, hourly_cost, flight.duration_hours, day))

---------------------------------------------------------------------------
(* Fuel prices and the daily tick                                          *)

\* change: the draw of random.uniform(-0.05, 0.05), in hundredths
update_fuel_prices(d0, day, change) ==
    LET state == get_state(d0, day)
        new_mult == Max(70, Min(150, state.fuel_price_multiplier + change))
    IN  Ok([state EXCEPT !.fuel_price_multiplier = new_mult], new_mult)

\* seats of the layout, else the catalog capacity, else 0
ParkingCapacity(ac) ==
    LET capacity == calculate_cabin_total_seats(ac.cabin_layout)
    IN  IF capacity /= 0 THEN capacity
        ELSE IF CatHas(ac.type_code) THEN aircraft_catalog[ac.type_code].capacity
        ELSE 0

\* the parking loop without the last_penalty_day mark
RECURSIVE TickParkingUnmarked(_, _, _, _, _)
TickParkingUnmarked(state, i, day, amount, penalties) ==
    IF i > Len(state.fleet) THEN [state |-> state, penalties |-> penalties]
    ELSE LET ac == state.fleet[i]
         IN  IF ac.last_penalty_day = day \/ _has_owned_parking(state, ac.location)
             THEN TickParkingUnmarked(state, i + 1, day, amount, penalties)
             ELSE LET large == ParkingCapacity(ac) > 19
                      charge == IF large THEN 5000 ELSE amount
                      s1 == [state EXCEPT !.cash = state.cash - charge]
                      s2 == _add_ledger(s1, IF large THEN "parking_fine" ELSE "parking_fee", -charge)
                  IN  TickParkingUnmarked(s2, i + 1, day, amount, penalties + 1)

\* the parking loop from aircraft i on; amount is the draw of random.randint(15, 30)
RECURSIVE TickParking(_, _, _, _, _)
TickParking(state, i, day, amount, penalties) ==
    IF i > Len(state.fleet) THEN [state |-> state, penalties |-> penalties]
    ELSE LET ac == state.fleet[i]
         IN  IF ac.last_penalty_day = day \/ _has_owned_parking(state, ac.location)
             THEN TickParking(state, i + 1, day, amount, penalties)
             ELSE LET large == ParkingCapacity(ac) > 19
                      charge == IF large THEN 5000 ELSE amount
                      s1 == [state EXCEPT !.cash = state.cash - charge,
                                          !.fleet[i].last_penalty_day = day]
                      s2 == _add_ledger(s1, IF large THEN "parking_fine" ELSE "parking_fee", -charge)
                  IN  TickParking(s2, i + 1, day, amount, penalties + 1)

MonthsElapsed(day, start_date) == Max(0, day - start_date) \div 30

\* the lease loop from lease k on; active collects the leases that are kept
RECURSIVE TickLeases(_, _, _, _)
TickLeases(state, k, day, active) ==
    IF k > Len(state.leases) THEN [state EXCEPT !.leases = active]
    ELSE LET lease == state.leases[k]
             months_elapsed == MonthsElapsed(day, lease.start_date)
         IN  IF months_elapsed + 1 > lease.term_months
             THEN TickLeases(state, k + 1, day, active)
             ELSE IF lease.last_payment_month < months_elapsed /\ state.cash >= lease.monthly_payment
             THEN TickLeases(_add_ledger([state EXCEPT !.cash = state.cash - lease.monthly_payment],
                                         "lease_payment", -lease.monthly_payment),
                             k + 1, day,
                             Append(active, [lease EXCEPT !.last_payment_month = months_elapsed]))
             ELSE TickLeases(state, k + 1, day, Append(active, lease))

\* one loan of the loan loop: the state and the loan after its payment or late fee
TickLoan(state, loan, day) ==
    LET months_elapsed == MonthsElapsed(day, loan.start_date)
        remaining_balance == loan.remaining_balance
        payment_amount == Min(loan.monthly_payment, remaining_balance)
        cash == state.cash
        penalty == TruncDiv(payment_amount * 5, 100)
    IN  IF loan.last_payment_month < months_elapsed /\ remaining_balance > 0
        THEN IF cash >= payment_amount
             THEN [ state |-> _add_ledger([state EXCEPT !.cash = cash - payment_amount],
                                          "loan_payment", -payment_amount),
                    loan  |-> [loan EXCEPT !.remaining_balance = remaining_balance - payment_amount,
                                           !.last_payment_month = months_elapsed] ]
             ELSE [ state |-> _add_ledger([state EXCEPT !.cash = Max(0, cash - penalty)],
                                          "loan_penalty", -penalty),
                    loan  |-> [loan EXCEPT !.remaining_balance = remaining_balance + penalty] ]
        ELSE [state |-> state, loan |-> loan]

\* the loan loop from loan k on; active collects the loans with a balance left
RECURSIVE TickLoans(_, _, _, _)
TickLoans(state, k, day, active) ==
    IF k > Len(state.loans) THEN [state EXCEPT !.loans = active]
    ELSE LET r == TickLoan(state, state.loans[k], day)
         IN  IF r.loan.remaining_balance > 0
             THEN TickLoans(r.state, k + 1, day, Append(active, r.loan))
             ELSE TickLoans(_add_ledger(r.state, "loan", 0), k + 1, day, active)

\* update_fuel_prices() loads and saves the document on its own; the tick then
\* saves the document it loaded before, multiplier included.  Returns the
\* number of parking penalties.
run_daily_tick(d0, day, change, amount) ==
    LET state == get_state(d0, day)
        fuel == update_fuel_prices(d0, day, change)
        s1 == [state EXCEPT !.last_daily_tick_day = day]
        parked == TickParking(s1, 1, day, amount, 0)
        s2 == TickLeases(parked.state, 1, day, <<>>)
        s3 == TickLoans(s2, 1, day, <<>>)
    IN  Ok(s3, parked.penalties)

\* returns <<days_processed, total_penalties>>
auto_process_daily_ticks(d0, day, change, amount) ==
    LET state == get_state(d0, day)
        days_missed == day - state.last_daily_tick_day
    IN  IF days_missed <= 0 THEN Ok(d0, <<0, 0>>)
        ELSE LET r == run_daily_tick(d0, day, change, amount)
             IN  Ok(r.doc, <<days_missed, r.ret>>)

---------------------------------------------------------------------------
(* The state machine: one action per engine operation                      *)

\* the day index of the first call
Day0 == 20000

Init ==
    /\ doc = InitDoc
    /\ today = Day0
    /\ last = [op |-> "init", args |-> <<>>, raised |-> FALSE, ret |-> "None", day |-> Day0]
    /\ before = InitDoc
    /\ reported = <<>>
    /\ ids = 0
    /\ nOps = 0

\* a call of operation op with arguments args whose outcome is r; earned are
\* the achievement ids the call returned as newly earned
Call(op, args, r, earned) ==
    /\ doc' = r.doc
    /\ before' = doc
    /\ last' = [op |-> op, args |-> args, raised |-> r.raised, ret |-> r.ret, day |-> today]
    /\ reported' = reported \o earned
    /\ ids' = ids + r.used
    /\ nOps' = nOps + 1
    /\ UNCHANGED today

AircraftIds == {doc.fleet[i].id : i \in 1..Len(doc.fleet)}

FlightIds == {doc.active_flights[i].flight_id : i \in 1..Len(doc.active_flights)}

LoanIds == {doc.loans[i].loan_id : i \in 1..Len(doc.loans)}

PilotIds == {doc.pilots[i].pilot_id : i \in 1..Len(doc.pilots)}

ItemIds == {doc.custom_items[i].item_id : i \in 1..Len(doc.custom_items)}

\* an id no entity has
NoSuchId == 0

\* a marketplace offer: a new aircraft at its catalog price
NewOffer(type_code) ==
    [ type_code |-> type_code, price |-> aircraft_catalog[type_code].price, total_hours |-> 0,
      reliability |-> 1000000, h_a |-> 0, h_b |-> 0, h_c |-> 0 ]

\* a used aircraft one flight short of a critically overdue C check
UsedOffer ==
    [ type_code |-> "C337", price |-> 90000, total_hours |-> 47990, reliability |-> 850000,
      h_a |-> 1000, h_b |-> 7000, h_c |-> 47990 ]

\* a used aircraft whose C check is critically overdue already
OverdueOffer ==
    [ type_code |-> "C337", price |-> 60000, total_hours |-> 48010, reliability |-> 800000,
      h_a |-> 1000, h_b |-> 7000, h_c |-> 48010 ]

BuyAircraft(offers) ==
    \E o \in offers :
        Call("buy_aircraft", [type_code |-> o.type_code, price |-> o.price, h_c |-> o.h_c],
             buy_aircraft(doc, today, o.type_code, o.price, o.total_hours, o.reliability,
                          o.h_a, o.h_b, o.h_c, ids + 1),
             <<>>)

LeaseAircraft(types, payments, terms) ==
    \E t \in types, m \in payments, n \in terms :
        Call("lease_aircraft", [type_code |-> t, monthly_payment |-> m, term_months |-> n],
             lease_aircraft(doc, today, t, m, n, ids + 1), <<>>)

PerformMaintenance(levels) ==
    \E a \in AircraftIds \cup {NoSuchId}, level \in levels :
        Call("perform_maintenance_level", [aircraft_id |-> a, level |-> level],
             perform_maintenance_level(doc, today, a, level), <<>>)

TakeLoan(principals, rates, terms) ==
    \E p \in principals, apr \in rates, n \in terms :
        Call("take_loan", [principal |-> p, apr |-> apr, term_months |-> n],
             take_loan(doc, today, p, apr, n, ids + 1), <<>>)

RepayLoan(amounts) ==
    \E l \in LoanIds \cup {NoSuchId}, amount \in amounts :
        Call("repay_loan", [loan_id |-> l, amount |-> amount],
             repay_loan(doc, today, l, amount, amount = 0), <<>>)

BuyParking(airports, lots) ==
    \E a \in airports, lot \in lots :
        Call("buy_parking", [airport |-> a, spots |-> lot[1], hangars |-> lot[2]],
             buy_parking(doc, today, a, lot[1], lot[2]), <<>>)

ChangeAircraftId(new_ids) ==
    \E a \in AircraftIds \cup {NoSuchId}, n \in new_ids :
        Call("change_aircraft_id", [aircraft_id |-> a, new_id |-> n],
             change_aircraft_id(doc, today, a, n), <<>>)

ConfigureCabin(layouts) ==
    \E a \in AircraftIds \cup {NoSuchId}, layout \in layouts :
        Call("configure_aircraft_cabin", [aircraft_id |-> a, layout |-> layout],
             configure_aircraft_cabin(doc, today, a, layout), <<>>)

PurchaseService(services, quantities) ==
    \E a \in AircraftIds \cup {NoSuchId}, s \in services, q \in quantities :
        Call("purchase_airport_service", [aircraft_id |-> a, service_type |-> s, quantity |-> q],
             purchase_airport_service(doc, today, a, s, q), <<>>)

PurchaseItem(airports, costs) ==
    \E a \in airports, c \in costs :
        Call("purchase_custom_item", [airport |-> a, cost |-> c],
             purchase_custom_item(doc, today, a, c, ids + 1), <<>>)

InstallItem ==
    \E k \in ItemIds \cup {NoSuchId}, a \in AircraftIds \cup {NoSuchId} :
        Call("install_custom_item", [item_id |-> k, aircraft_id |-> a],
             install_custom_item(doc, today, k, a), <<>>)

UninstallItem ==
    \E k \in ItemIds \cup {NoSuchId} :
        Call("uninstall_custom_item", [item_id |-> k],
             uninstall_custom_item(doc, today, k), <<>>)

HirePilot(skills) ==
    \E named \in BOOLEAN, skill \in skills :
        Call("hire_pilot", [has_name |-> named, skill_level |-> skill],
             hire_pilot(doc, today, named, skill, ids + 1), <<>>)

\* aircraft id 0 is None: the pilot is unassigned
AssignPilot ==
    \E p \in PilotIds \cup {NoSuchId}, a \in AircraftIds \cup {NoSuchId} :
        Call("assign_pilot_to_aircraft", [pilot_id |-> p, aircraft_id |-> a],
             assign_pilot_to_aircraft(doc, today, p, a), <<>>)

FirePilot ==
    \E p \in PilotIds \cup {NoSuchId} :
        Call("fire_pilot", [pilot_id |-> p], fire_pilot(doc, today, p), <<>>)

RefillOil ==
    \E a \in AircraftIds \cup {NoSuchId} :
        Call("refill_aircraft_oil", [aircraft_id |-> a], refill_aircraft_oil(doc, today, a), <<>>)

ChangeOil ==
    \E a \in AircraftIds \cup {NoSuchId} :
        Call("change_aircraft_oil", [aircraft_id |-> a], change_aircraft_oil(doc, today, a), <<>>)

Walkaround(severities) ==
    \E a \in AircraftIds \cup {NoSuchId}, found \in BOOLEAN, sev \in severities, mel \in BOOLEAN :
        /\ found \/ (sev = "Minor" /\ ~mel)
        /\ sev = "Critical" => ~mel
        /\ Call("walkaround_check", [aircraft_id |-> a, found |-> found],
                walkaround_check(doc, today, a, found, sev, mel, ids + 1), <<>>)

ClearSnag ==
    \E a \in AircraftIds \cup {NoSuchId} :
        \E s \in {NoSuchId} \cup UNION {{doc.fleet[i].snags[k].snag_id : k \in 1..Len(doc.fleet[i].snags)}
                                        : i \in 1..Len(doc.fleet)} :
            Call("clear_snag", [aircraft_id |-> a, snag_id |-> s], clear_snag(doc, today, a, s), <<>>)

GroundAircraft ==
    \E a \in AircraftIds \cup {NoSuchId} :
        Call("ground_aircraft", [aircraft_id |-> a], ground_aircraft(doc, today, a), <<>>)

Preflight(durations) ==
    \E a \in AircraftIds \cup {NoSuchId}, h \in durations :
        Call("preflight_check", [aircraft_id |-> a, flight_hours |-> h],
             preflight_check(doc, today, a, h), <<>>)


StartFlight(dests, prices, durations) ==
    \E a \in AircraftIds \cup {NoSuchId}, dest \in dests, p \in prices, h \in durations :
        Call("start_flight",
             [aircraft_id |-> a, dest |-> dest, ticket_price |-> p, duration_hours |-> h],
             start_flight(doc, today, a, dest, p, h, ids + 1), <<>>)

CancelFlight ==
    \E f \in FlightIds \cup {NoSuchId} :
        Call("cancel_flight", [flight_id |-> f], cancel_flight(doc, today, f), <<>>)

\* a soft on-time landing with the best custom mark (clamped to +5.0)
GoodAnswers ==
    [ given |-> TRUE, has_touchdown |-> TRUE, touchdown_fpm |-> 150,
      has_timing |-> TRUE, departure_timing |-> 0,
      has_custom |-> TRUE, custom_rep_change |-> 100 ]

\* a hard, late landing with the worst custom mark (clamped to -5.0)
BadAnswers ==
    [ given |-> TRUE, has_touchdown |-> TRUE, touchdown_fpm |-> 900,
      has_timing |-> TRUE, departure_timing |-> 90,
      has_custom |-> TRUE, custom_rep_change |-> -100 ]

\* both answers present and zero: falsy, so the questionnaire is not counted
ZeroAnswers ==
    [ given |-> TRUE, has_touchdown |-> TRUE, touchdown_fpm |-> 0,
      has_timing |-> TRUE, departure_timing |-> 0,
      has_custom |-> TRUE, custom_rep_change |-> 30 ]

EndFlight(answer_set) ==
    \E f \in FlightIds \cup {NoSuchId}, answers \in answer_set, high \in BOOLEAN :
        LET r == end_flight(doc, today, f, answers, high)
        IN  Call("end_flight", [flight_id |-> f, answers |-> answers], r,
                 IF r.raised THEN <<>> ELSE r.ret.new_achievements)

UpdateFuelPrices(changes) ==
    \E c \in changes :
        Call("update_fuel_prices", [change |-> c], update_fuel_prices(doc, today, c), <<>>)

RunDailyTick(changes, amounts) ==
    \E c \in changes, amount \in amounts :
        Call("run_daily_tick", [change |-> c, amount |-> amount],
             run_daily_tick(doc, today, c, amount), <<>>)

AutoProcessDailyTicks(changes, amounts) ==
    \E c \in changes, amount \in amounts :
        Call("auto_process_daily_ticks", [change |-> c, amount |-> amount],
             auto_process_daily_ticks(doc, today, c, amount), <<>>)

CheckAchievements ==
    LET r == check_and_award_achievements(doc, today)
    IN  Call("check_and_award_achievements", <<>>, r, r.ret)

\* update_reputation on the loaded document, saved by the caller
UpdateReputation(changes) ==
    \E c \in changes :
        LET d == update_reputation(c, get_state(doc, today))
        IN  Call("update_reputation", [change |-> c], Ok(d, d.reputation), <<>>)

\* the wall clock moves on to a later day; no call is made
AdvanceClock(days) ==
    \E day \in days :
        /\ day > today
        /\ today' = day
        /\ UNCHANGED <<doc, last, before, reported, ids, nOps>>

---------------------------------------------------------------------------
(* The whole engine, every operation, for a few calls                      *)

\* fewer than n calls have been made
Budget(n) == nOps < n

MaxOps == 3

SeatRow(row, seat_type, seats) == [row |-> row, seat_type |-> seat_type, seats |-> seats]

Next ==
    \/ Budget(MaxOps) /\ BuyAircraft({NewOffer("E55P"), NewOffer("A320"), OverdueOffer})
    \/ Budget(MaxOps) /\ LeaseAircraft({"C337"}, {5000}, {12})
    \/ Budget(MaxOps) /\ PerformMaintenance({"A", "C", "X"})
    \/ Budget(MaxOps) /\ TakeLoan({0, 6000000, 20000000}, {1200}, {2})
    \/ Budget(MaxOps) /\ RepayLoan({0, 500000})
    \/ Budget(MaxOps) /\ BuyParking({"JFK", ""}, {<<1, 0>>, <<0, 1>>})
    \/ Budget(MaxOps) /\ ChangeAircraftId({101})
    \/ Budget(MaxOps) /\ ConfigureCabin({<<SeatRow(1, "RECL", 2)>>, <<SeatRow(1, "SLIM", 9)>>})
    \/ Budget(MaxOps) /\ PurchaseService({"catering", "refueling", "valet"}, {0, 100})
    \/ Budget(MaxOps) /\ PurchaseItem({"JFK", ""}, {0, 2000})
    \/ Budget(MaxOps) /\ InstallItem
    \/ Budget(MaxOps) /\ UninstallItem
    \/ Budget(MaxOps) /\ HirePilot({0, 3})
    \/ Budget(MaxOps) /\ AssignPilot
    \/ Budget(MaxOps) /\ FirePilot
    \/ Budget(MaxOps) /\ RefillOil
    \/ Budget(MaxOps) /\ ChangeOil
    \/ Budget(MaxOps) /\ Walkaround({"Minor", "Critical"})
    \/ Budget(MaxOps) /\ ClearSnag
    \/ Budget(MaxOps) /\ GroundAircraft
    \/ Budget(MaxOps) /\ Preflight({20})
    \/ Budget(MaxOps) /\ StartFlight({"JFK"}, {0, 100}, {20})
    \/ Budget(MaxOps) /\ CancelFlight
    \/ Budget(MaxOps) /\ EndFlight({NoAnswers, GoodAnswers})
    \/ Budget(MaxOps) /\ UpdateFuelPrices({5})
    \/ Budget(MaxOps) /\ RunDailyTick({5}, {15})
    \/ Budget(MaxOps) /\ AutoProcessDailyTicks({5}, {30})
    \/ Budget(MaxOps) /\ CheckAchievements
    \/ Budget(MaxOps) /\ UpdateReputation({-100000, 5, 100000})
    \/ AdvanceClock({Day0 + 30})

Spec == Init /\ [][Next]_vars

---------------------------------------------------------------------------
(* Flights, reputation and achievements, for longer runs                   *)

MaxFlightOps == 4

NextFlights ==
    \/ Budget(MaxFlightOps) /\ BuyAircraft({NewOffer("C337"), UsedOffer, OverdueOffer})
    \/ Budget(MaxFlightOps) /\ GroundAircraft
    \/ Budget(MaxFlightOps) /\ Preflight({20})
    \/ Budget(MaxFlightOps) /\ StartFlight({"JFK"}, {0, 100}, {20})
    \/ Budget(MaxFlightOps) /\ CancelFlight
    \/ Budget(MaxFlightOps) /\ EndFlight({NoAnswers, GoodAnswers, BadAnswers, ZeroAnswers})
    \/ Budget(MaxFlightOps) /\ CheckAchievements
    \/ Budget(MaxFlightOps) /\ UpdateReputation({-100000, 100000})

SpecFlights == Init /\ [][NextFlights]_vars

---------------------------------------------------------------------------
(* The daily tick with aircraft, leases and loans                          *)

MaxTickOps == 4

NextTick ==
    \/ Budget(MaxTickOps) /\ BuyAircraft({NewOffer("C337"), NewOffer("E55P")})
    \/ Budget(MaxTickOps) /\ LeaseAircraft({"A320"}, {5000}, {12})
    \/ Budget(MaxTickOps) /\ TakeLoan({200000}, {0, 1200}, {1})
    \/ Budget(MaxTickOps) /\ BuyParking({"HOME"}, {<<1, 0>>})
    \/ Budget(MaxTickOps) /\ RunDailyTick({5}, {15})
    \/ Budget(MaxTickOps) /\ AutoProcessDailyTicks({5}, {15})
    \/ AdvanceClock({Day0 + 30})

SpecTick == Init /\ [][NextTick]_vars

---------------------------------------------------------------------------
(* Custom items: bought at an airport, installed on an aircraft there      *)

MaxItemOps == 7

NextItems ==
    \/ Budget(MaxItemOps) /\ BuyAircraft({NewOffer("C337")})
    \/ Budget(MaxItemOps) /\ BuyParking({"JFK"}, {<<0, 1>>})
    \/ Budget(MaxItemOps) /\ PurchaseItem({"JFK"}, {2000})
    \/ Budget(MaxItemOps) /\ InstallItem
    \/ Budget(MaxItemOps) /\ UninstallItem
    \/ Budget(MaxItemOps) /\ StartFlight({"JFK"}, {100}, {20})
    \/ Budget(MaxItemOps) /\ EndFlight({NoAnswers})

SpecItems == Init /\ [][NextItems]_vars

---------------------------------------------------------------------------
(* The demand model of start_flight over aircraft, cabins, seasons,        *)
(* services and prices                                                     *)

MaxDemandOps == 1

DemandTypes == {"C337", "C208", "B350"}

\* summer (x1.2), autumn (x1.0), winter (x1.3), February (x0.9)
DemandDays == {Day0, Day0 + 60, Day0 + 150, Day0 + 210}

\* the default cabin (<<>>: not reconfigured), a reclining row, a slimline row
DemandCabins == {<<>>, <<SeatRow(1, "RECL", 2)>>, <<SeatRow(1, "SLIM", 2), SeatRow(2, "LIE180", 1)>>}

TicketPrices == {-50, 0, 1, 2, 60, 105, 150, 210, 525, 1050, 1100, 5000}

\* the document after buying one new aircraft on day, fitting this cabin and
\* buying these services for it
ServicedFleet(type_code, day, cabin, services) ==
    LET o  == NewOffer(type_code)
        d1 == buy_aircraft(InitDoc, day, o.type_code, o.price, o.total_hours, o.reliability,
                           o.h_a, o.h_b, o.h_c, 1).doc
        d2 == IF cabin /= <<>> THEN configure_aircraft_cabin(d1, day, 1, cabin).doc ELSE d1
        d3 == IF "catering" \in services
              THEN purchase_airport_service(d2, day, 1, "catering", 0).doc ELSE d2
    IN  IF "cleaning" \in services
        THEN purchase_airport_service(d3, day, 1, "cleaning", 0).doc ELSE d3

InitDemand ==
    \E t \in DemandTypes, day \in DemandDays, cabin \in DemandCabins,
       services \in SUBSET {"catering", "cleaning"} :
        /\ doc = ServicedFleet(t, day, cabin, services)
        /\ today = day
        /\ last = [op |-> "init", args |-> <<>>, raised |-> FALSE, ret |-> "None", day |-> day]
        /\ before = InitDoc
        /\ reported = <<>>
        /\ ids = 1
        /\ nOps = 0

NextDemand == Budget(MaxDemandOps) /\ StartFlight({"JFK"}, TicketPrices, {20})

SpecDemand == InitDemand /\ [][NextDemand]_vars

---------------------------------------------------------------------------
(* The seat functions on their own                                         *)

MaxSeatOps == 1

MaxCapacity == 6

\* Min(max_seats_per_row, capacity) = 0 makes the row count divide by zero
get_default_layout_raises(capacity, max_seats_per_row) ==
    Min(max_seats_per_row, capacity) = 0

DefaultLayout(capacities, per_rows, max_rowss) ==
    \E c \in capacities, m \in per_rows, r \in max_rowss :
        Call("get_default_layout", [capacity |-> c, max_seats_per_row |-> m, max_rows |-> r],
             IF get_default_layout_raises(c, m) THEN Raise(doc, "ZeroDivisionError")
             ELSE Ok(doc, get_default_layout(c, m, r)), <<>>)

\* a row without the seats key
BareRow(row, seat_type) == [row |-> row, seat_type |-> seat_type]

\* first rows and second rows of the layouts handed to calculate_cabin_comfort
ComfortRows(n) ==
    {SeatRow(n, t, k) : t \in {"SLIM", "RECL", "LIE180"}, k \in {-1, 0, 2, 3}}
    \cup {BareRow(n, t) : t \in {"SLIM", "RECL", "LIE180"}}

ComfortLayouts ==
    {<<>>} \cup {<<a>> : a \in ComfortRows(1)}
           \cup {<<a, b>> : a \in ComfortRows(1), b \in ComfortRows(2)}

CabinComfort(layouts) ==
    \E layout \in layouts :
        Call("calculate_cabin_comfort", [layout |-> layout],
             Ok(doc, calculate_cabin_comfort(layout)), <<>>)

NextSeats ==
    \/ Budget(MaxSeatOps) /\ DefaultLayout(-1..MaxCapacity, -1..3, -1..3)
    \/ Budget(MaxSeatOps) /\ CabinComfort(ComfortLayouts)

SpecSeats == Init /\ [][NextSeats]_vars

---------------------------------------------------------------------------
(* A company with a long history: the ledger and the completed flights     *)
(* near their caps                                                          *)

MaxLedgerOps == 3

\* the document of a company that has flown n flights before
PastDoc(n) ==
    [InitDoc EXCEPT
        !.ledger = [i \in 1..n |-> [category |-> "flight", amount |-> i]],
        !.completed_flights =
            [i \in 1..n |-> [ day |-> Day0, dest |-> "JFK", revenue |-> i, cost |-> 0,
                              passengers |-> 1, capacity |-> 1 ]]]

InitLedger ==
    \E n \in (LedgerCap - 2)..LedgerCap :
        /\ doc = PastDoc(n)
        /\ today = Day0
        /\ last = [op |-> "init", args |-> <<>>, raised |-> FALSE, ret |-> "None", day |-> Day0]
        /\ before = PastDoc(n)
        /\ reported = <<>>
        /\ ids = 0
        /\ nOps = 0

NextLedger ==
    \/ Budget(MaxLedgerOps) /\ BuyAircraft({NewOffer("C337")})
    \/ Budget(MaxLedgerOps) /\ BuyParking({"HOME"}, {<<1, 0>>})
    \/ Budget(MaxLedgerOps) /\ TakeLoan({200000}, {1200}, {2})
    \/ Budget(MaxLedgerOps) /\ RepayLoan({0, 500000})
    \/ Budget(MaxLedgerOps) /\ StartFlight({"JFK"}, {100}, {20})
    \/ Budget(MaxLedgerOps) /\ EndFlight({NoAnswers})
    \/ Budget(MaxLedgerOps) /\ RunDailyTick({5}, {15})

SpecLedger == InitLedger /\ [][NextLedger]_vars

---------------------------------------------------------------------------
(* Loans: taken, repaid by hand and by the daily tick                      *)

MaxLoanOps == 4

NextLoans ==
    \/ Budget(MaxLoanOps) /\ BuyAircraft({NewOffer("E55P")})
    \/ Budget(MaxLoanOps) /\ TakeLoan({1, 200000}, {0}, {2})
    \/ Budget(MaxLoanOps) /\ RepayLoan({0, 500000})
    \/ Budget(MaxLoanOps) /\ RunDailyTick({5}, {15})
    \/ AdvanceClock({Day0 + 30})

SpecLoans == Init /\ [][NextLoans]_vars

---------------------------------------------------------------------------
(* Flights settled, also after the aircraft was re-registered              *)

MaxSettleOps == 4

NextSettle ==
    \/ Budget(MaxSettleOps) /\ BuyAircraft({NewOffer("C337"), OverdueOffer})
    \/ Budget(MaxSettleOps) /\ StartFlight({"JFK"}, {0, 100}, {20})
    \/ Budget(MaxSettleOps) /\ ChangeAircraftId({101})
    \/ Budget(MaxSettleOps) /\ EndFlight({NoAnswers, GoodAnswers})

SpecSettle == Init /\ [][NextSettle]_vars

---------------------------------------------------------------------------
(* Custom items on an aircraft that is re-registered                       *)

MaxRegisterOps == 5

NextRegister ==
    \/ Budget(MaxRegisterOps) /\ BuyAircraft({NewOffer("C337")})
    \/ Budget(MaxRegisterOps) /\ BuyParking({"HOME"}, {<<0, 1>>})
    \/ Budget(MaxRegisterOps) /\ PurchaseItem({"HOME"}, {2000})
    \/ Budget(MaxRegisterOps) /\ InstallItem
    \/ Budget(MaxRegisterOps) /\ UninstallItem
    \/ Budget(MaxRegisterOps) /\ ChangeAircraftId({101})

SpecRegister == Init /\ [][NextRegister]_vars

---------------------------------------------------------------------------
(* The idle catch-up after months away                                     *)

MaxCatchUpOps == 4

NextCatchUp ==
    \/ Budget(MaxCatchUpOps) /\ TakeLoan({200000}, {0}, {4})
    \/ Budget(MaxCatchUpOps) /\ LeaseAircraft({"C337"}, {5000}, {12})
    \/ Budget(MaxCatchUpOps) /\ BuyParking({"HOME"}, {<<1, 0>>})
    \/ Budget(MaxCatchUpOps) /\ RunDailyTick({5}, {15})
    \/ Budget(MaxCatchUpOps) /\ AutoProcessDailyTicks({5}, {15})
    \/ AdvanceClock({Day0 + 30, Day0 + 60})

SpecCatchUp == Init /\ [][NextCatchUp]_vars

---------------------------------------------------------------------------
(* Flights of an aircraft with an assigned pilot                           *)

MaxPilotOps == 5

NextPilot ==
    \/ Budget(MaxPilotOps) /\ BuyAircraft({NewOffer("C337")})
    \/ Budget(MaxPilotOps) /\ HirePilot({1, 3})
    \/ Budget(MaxPilotOps) /\ AssignPilot
    \/ Budget(MaxPilotOps) /\ StartFlight({"JFK"}, {100}, {20})
    \/ Budget(MaxPilotOps) /\ EndFlight({NoAnswers, GoodAnswers, BadAnswers})

SpecPilot == Init /\ [][NextPilot]_vars

---------------------------------------------------------------------------
(* Grounding: worn aircraft flown, grounded and checked                    *)

MaxGroundOps == 4

\* a vintage marketplace aircraft: 20000 h flown, A check overdue, 3000 h since
\* the B and C checks (a C check is due at 4000 h), reliability 0.35
WornOffer ==
    [ type_code |-> "C337", price |-> 12000, total_hours |-> 200000, reliability |-> 350000,
      h_a |-> 1600, h_b |-> 6000, h_c |-> 30000 ]

NextGround ==
    \/ Budget(MaxGroundOps) /\ BuyAircraft({NewOffer("C337"), UsedOffer, WornOffer})
    \/ Budget(MaxGroundOps) /\ GroundAircraft
    \/ Budget(MaxGroundOps) /\ Preflight({20})
    \/ Budget(MaxGroundOps) /\ PerformMaintenance({"C"})
    \/ Budget(MaxGroundOps) /\ StartFlight({"JFK"}, {100}, {20})
    \/ Budget(MaxGroundOps) /\ EndFlight({NoAnswers})

SpecGround == Init /\ [][NextGround]_vars

---------------------------------------------------------------------------
(* Leases ticked daily over their first months                             *)

MaxLeaseOps == 4

NextLease ==
    \/ Budget(MaxLeaseOps) /\ LeaseAircraft({"C337"}, {5000}, {2})
    \/ Budget(MaxLeaseOps) /\ RunDailyTick({5}, {15})
    \/ Budget(MaxLeaseOps) /\ AutoProcessDailyTicks({5}, {15})
    \/ AdvanceClock({Day0 + 1, Day0 + 30, Day0 + 31})

SpecLease == Init /\ [][NextLease]_vars

---------------------------------------------------------------------------
(* The end-of-flight questionnaire over every combination of answers       *)

MaxAnswerOps == 3

\* questionnaires with each answer absent or present: a soft (0, 300) or hard
\* (900) touchdown, an on-time (0), early (-10) or late (90) departure, a
\* custom mark within (3.0) or beyond (-10.0) the clamp
AnswerSets ==
    {a \in [ given : {TRUE},
             has_touchdown : BOOLEAN, touchdown_fpm : {0, 300, 900},
             has_timing : BOOLEAN, departure_timing : {-10, 0, 90},
             has_custom : BOOLEAN, custom_rep_change : {-100, 0, 30} ] :
        /\ ~a.has_touchdown => a.touchdown_fpm = 0
        /\ ~a.has_timing => a.departure_timing = 0
        /\ a.has_custom = (a.custom_rep_change /= 0)}

NextAnswers ==
    \/ Budget(MaxAnswerOps) /\ BuyAircraft({NewOffer("C337")})
    \/ Budget(MaxAnswerOps) /\ StartFlight({"JFK"}, {100}, {20})
    \/ Budget(MaxAnswerOps) /\ EndFlight(AnswerSets \cup {NoAnswers})

SpecAnswers == Init /\ [][NextAnswers]_vars

---------------------------------------------------------------------------
(* A and B checks on a worn aircraft with snags                            *)

MaxCheckOps == 4

NextChecks ==
    \/ Budget(MaxCheckOps) /\ BuyAircraft({WornOffer})
    \/ Budget(MaxCheckOps) /\ Walkaround({"Minor", "Major", "Critical"})
    \/ Budget(MaxCheckOps) /\ GroundAircraft
    \/ Budget(MaxCheckOps) /\ StartFlight({"JFK"}, {100}, {20})
    \/ Budget(MaxCheckOps) /\ EndFlight({NoAnswers})
    \/ Budget(MaxCheckOps) /\ PerformMaintenance({"A", "B"})

SpecChecks == Init /\ [][NextChecks]_vars

---------------------------------------------------------------------------
(* Cash against the ledger: purchases, loans, checks, flights and ticks    *)

MaxAuditOps == 4

NextAudit ==
    \/ Budget(MaxAuditOps) /\ BuyAircraft({NewOffer("C337"), NewOffer("E55P")})
    \/ Budget(MaxAuditOps) /\ TakeLoan({200000}, {0}, {2})
    \/ Budget(MaxAuditOps) /\ PerformMaintenance({"B"})
    \/ Budget(MaxAuditOps) /\ RunDailyTick({5}, {15})
    \/ Budget(MaxAuditOps) /\ StartFlight({"JFK"}, {100}, {20})
    \/ Budget(MaxAuditOps) /\ ChangeAircraftId({101})
    \/ Budget(MaxAuditOps) /\ EndFlight({NoAnswers})

SpecAudit == Init /\ [][NextAudit]_vars

---------------------------------------------------------------------------
(* Purchases and fees with prices and quantities of either sign            *)

MaxPriceOps == 3

\* a listing with a negative price
NegativeOffer ==
    [ type_code |-> "C337", price |-> -1000, total_hours |-> 0, reliability |-> 1000000,
      h_a |-> 0, h_b |-> 0, h_c |-> 0 ]

NextPrices ==
    \/ Budget(MaxPriceOps) /\ BuyAircraft({NewOffer("C337"), NegativeOffer})
    \/ Budget(MaxPriceOps) /\ LeaseAircraft({"C337"}, {-5000, 5000}, {12})
    \/ Budget(MaxPriceOps) /\ ConfigureCabin({<<SeatRow(1, "RECL", 2)>>, <<SeatRow(1, "LIE180", -2)>>})
    \/ Budget(MaxPriceOps) /\ BuyParking({"HOME"}, {<<-1, 0>>, <<0, 1>>})
    \/ Budget(MaxPriceOps) /\ PurchaseService({"catering", "refueling"}, {-100, 100})
    \/ Budget(MaxPriceOps) /\ PurchaseItem({"HOME"}, {-2000, 2000})
    \/ Budget(MaxPriceOps) /\ PerformMaintenance({"A"})
    \/ Budget(MaxPriceOps) /\ RefillOil
    \/ Budget(MaxPriceOps) /\ ChangeOil
    \/ Budget(MaxPriceOps) /\ ChangeAircraftId({101})

SpecPrices == Init /\ [][NextPrices]_vars

---------------------------------------------------------------------------
(* References to aircraft: flights, pilots and leases across re-registration *)

MaxRefOps == 4

\* assign_pilot_to_aircraft with an aircraft id given by the caller
AssignPilotTo(aircraft_ids) ==
    \E p \in PilotIds, a \in aircraft_ids :
        Call("assign_pilot_to_aircraft", [pilot_id |-> p, aircraft_id |-> a],
             assign_pilot_to_aircraft(doc, today, p, a), <<>>)

NextRefs ==
    \/ Budget(MaxRefOps) /\ BuyAircraft({NewOffer("C337")})
    \/ Budget(MaxRefOps) /\ LeaseAircraft({"C337"}, {5000}, {12})
    \/ Budget(MaxRefOps) /\ HirePilot({3})
    \/ Budget(MaxRefOps) /\ AssignPilot
    \/ Budget(MaxRefOps) /\ AssignPilotTo({999})
    \/ Budget(MaxRefOps) /\ StartFlight({"JFK"}, {100}, {20})
    \/ Budget(MaxRefOps) /\ EndFlight({NoAnswers})
    \/ Budget(MaxRefOps) /\ ChangeAircraftId({101})

SpecRefs == Init /\ [][NextRefs]_vars

---------------------------------------------------------------------------
(* Properties                                                              *)

\* C1: in every reachable state the company reputation is within [0, 100]
\* (0..1000 tenths), whatever end_flight, cancel_flight and update_reputation
\* have added to it.
C1_ReputationInRange == 0 <= doc.reputation /\ doc.reputation <= 1000

\* an end_flight whose reputation change would take the reputation past 100
C1_EndFlightClamped ==
    /\ last.op = "end_flight"
    /\ ~last.raised
    /\ before.reputation + last.ret.reputation_change > 1000
    /\ doc.reputation = 1000

\* C2: a call that raises leaves the persisted document exactly as it was
\* before the call.
C2_AllOrNothing == last.raised => doc = before

\* a C check refused for lack of cash on an aircraft of the fleet
C2_RefusedMaintenance ==
    /\ last.op = "perform_maintenance_level"
    /\ last.raised
    /\ last.ret = "Insufficient cash"
    /\ AcIdx(before, last.args.aircraft_id) /= 0

\* C3: start_flight creates no active flight for an aircraft that is grounded,
\* or whose C check is already past 1.2 x 4000 h, or would be past it after
\* the requested duration.
C3_UnairworthyRefused ==
    (last.op = "start_flight" /\ AcIdx(before, last.args.aircraft_id) /= 0) =>
        LET aircraft == before.fleet[AcIdx(before, last.args.aircraft_id)]
            limit == (MAINTENANCE_INTERVALS.C * 12) \div 10
        IN  ( \/ aircraft.grounded
              \/ aircraft.hours_since_c_check > limit
              \/ aircraft.hours_since_c_check + last.args.duration_hours > limit )
            => doc.active_flights = before.active_flights

\* C4: an aircraft goes from grounded to not grounded only in a successful C
\* check on it, and a successful C check leaves the aircraft not grounded, with
\* hours_since_c_check 0 and no snags.
C4_GroundedClearedByCCheck ==
    /\ \A i \in 1..Len(before.fleet) :
          (i <= Len(doc.fleet) /\ before.fleet[i].grounded /\ ~doc.fleet[i].grounded) =>
              /\ last.op = "perform_maintenance_level"
              /\ ~last.raised
              /\ last.args.level = "C"
              /\ last.args.aircraft_id = before.fleet[i].id
    /\ (last.op = "perform_maintenance_level" /\ ~last.raised /\ last.args.level = "C") =>
          LET aircraft == doc.fleet[AcIdx(doc, last.args.aircraft_id)]
          IN  /\ ~aircraft.grounded
              /\ aircraft.hours_since_c_check = 0
              /\ aircraft.snags = <<>>

\* a successful C check on a grounded aircraft
C4_CCheckOnGrounded ==
    /\ last.op = "perform_maintenance_level"
    /\ ~last.raised
    /\ last.args.level = "C"
    /\ before.fleet[AcIdx(before, last.args.aircraft_id)].grounded
    /\ ~doc.fleet[AcIdx(doc, last.args.aircraft_id)].grounded

\* the parking fees and fines in the ledger
ParkingCharges(d) == SelectSeq(d.ledger, LAMBDA e : e.category \in {"parking_fee", "parking_fine"})

\* C5: a run_daily_tick that follows a run_daily_tick of the same day returns
\* 0 penalties, adds no parking fee or fine and marks no aircraft.
C5_SecondTickChargesNoParking ==
    [][ ( /\ last.op = "run_daily_tick"
          /\ last.day = today
          /\ last'.op = "run_daily_tick"
          /\ nOps' = nOps + 1 )
        => /\ last'.ret = 0
           /\ ParkingCharges(doc') = ParkingCharges(doc)
           /\ \A i \in 1..Len(doc.fleet) :
                 doc'.fleet[i].last_penalty_day = doc.fleet[i].last_penalty_day ]_vars

\* a tick that returns 0 penalties on a day on which an aircraft has been
\* charged already
C5_SecondTickSameDay ==
    /\ last.op = "run_daily_tick"
    /\ last.ret = 0
    /\ \E i \in 1..Len(before.fleet) : before.fleet[i].last_penalty_day = last.day

\* C6: a run_daily_tick that follows a run_daily_tick of the same day leaves
\* the cash, every loan's remaining_balance and last_payment_month and every
\* lease's last_payment_month as they were, whatever the cash.
C6_SecondTickChangesNothing ==
    [][ ( /\ last.op = "run_daily_tick"
          /\ last.day = today
          /\ last'.op = "run_daily_tick"
          /\ nOps' = nOps + 1 )
        => /\ doc'.cash = doc.cash
           /\ SeqMap(LAMBDA l : <<l.loan_id, l.remaining_balance, l.last_payment_month>>, doc'.loans)
              = SeqMap(LAMBDA l : <<l.loan_id, l.remaining_balance, l.last_payment_month>>, doc.loans)
           /\ SeqMap(LAMBDA l : <<l.lease_id, l.last_payment_month>>, doc'.leases)
              = SeqMap(LAMBDA l : <<l.lease_id, l.last_payment_month>>, doc.leases) ]_vars

\* C7: take_loan with a principal above calculate_max_loan_amount() minus the
\* remaining balances of the existing loans raises and leaves cash and loans
\* unchanged.
C7_LoanAboveCreditRefused ==
    ( /\ last.op = "take_loan"
      /\ last.args.principal > calculate_max_loan_amount(get_state(before, last.day))
                               - TotalDebt(before.loans) )
    => /\ last.raised
       /\ doc.cash = before.cash
       /\ doc.loans = before.loans

\* a company in debt refused a loan that calculate_max_loan_amount() alone
\* would have allowed
C7_RefusedForExistingDebt ==
    /\ last.op = "take_loan"
    /\ last.raised
    /\ before.loans /= <<>>
    /\ last.args.principal <= calculate_max_loan_amount(get_state(before, last.day))
    /\ last.args.principal > calculate_max_loan_amount(get_state(before, last.day))
                             - TotalDebt(before.loans)

\* C8: install_custom_item succeeds only for a stored item at the airport where
\* the aircraft is, and then sets installed_on to the aircraft; with item and
\* aircraft at different airports it raises and changes nothing; with a stored
\* item at the aircraft's airport it succeeds.
C8_InstallOnlyAtSameAirport ==
    last.op = "install_custom_item" =>
        LET k == ItemIdx(before, last.args.item_id)
            i == AcIdx(before, last.args.aircraft_id)
        IN  /\ ~last.raised =>
                  /\ k /= 0 /\ i /= 0
                  /\ before.custom_items[k].installed_on = 0
                  /\ before.custom_items[k].airport = before.fleet[i].location
                  /\ doc.custom_items[k].installed_on = last.args.aircraft_id
            /\ (k /= 0 /\ i /= 0 /\ before.custom_items[k].airport /= before.fleet[i].location) =>
                  /\ last.raised
                  /\ doc = before
            /\ ( /\ k /= 0 /\ i /= 0
                 /\ before.custom_items[k].installed_on = 0
                 /\ before.custom_items[k].airport = before.fleet[i].location ) =>
                  ~last.raised

\* an item installed on an aircraft that has flown to the item's airport
C8_InstalledAfterMove ==
    /\ last.op = "install_custom_item"
    /\ ~last.raised
    /\ Len(doc.completed_flights) > 0
    /\ doc.fleet[AcIdx(doc, last.args.aircraft_id)].location = "JFK"
    /\ doc.custom_items[ItemIdx(doc, last.args.item_id)].installed_on = last.args.aircraft_id

\* C9: the persisted achievements only grow and hold no id twice, and no id is
\* reported as newly earned by more than one call.
C9_AchievementsAwardedOnce ==
    /\ Range(before.achievements) \subseteq Range(doc.achievements)
    /\ \A i, j \in 1..Len(doc.achievements) : i /= j => doc.achievements[i] /= doc.achievements[j]
    /\ \A i, j \in 1..Len(reported) : i /= j => reported[i] /= reported[j]

\* C10 as stated: for all prices q <= p, zero and negative ones included, the
\* passengers boarded at price p are at most those boarded at price q.
C10_DemandFallsWithPrice ==
    (last.op = "start_flight" /\ ~last.raised) =>
        \A q \in TicketPrices :
            q <= last.args.ticket_price =>
                start_flight(before, last.day, last.args.aircraft_id, last.args.dest, q,
                             last.args.duration_hours, ids).ret >= last.ret

\* C10 amended: for all prices 0 < q <= p the passengers boarded at price p are
\* at most those boarded at price q.
C10_DemandFallsWithPositivePrice ==
    (last.op = "start_flight" /\ ~last.raised) =>
        \A q \in TicketPrices :
            (0 < q /\ q <= last.args.ticket_price) =>
                start_flight(before, last.day, last.args.aircraft_id, last.args.dest, q,
                             last.args.duration_hours, ids).ret >= last.ret

\* a flight that boards some but fewer passengers than a lower positive price
\* would have
C10_HigherPriceFewerPassengers ==
    /\ last.op = "start_flight"
    /\ ~last.raised
    /\ last.ret > 0
    /\ \E q \in TicketPrices :
          /\ 0 < q /\ q < last.args.ticket_price
          /\ start_flight(before, last.day, last.args.aircraft_id, last.args.dest, q,
                          last.args.duration_hours, ids).ret > last.ret

\* C11: get_default_layout returns, for all integer inputs, a layout of at most
\* max_rows rows, no row holding more than max_seats_per_row seats, and of
\* exactly capacity seats whenever capacity <= max_seats_per_row * max_rows.
C11_DefaultLayoutWithinLimits ==
    last.op = "get_default_layout" =>
        /\ ~last.raised
        /\ Len(last.ret) <= last.args.max_rows
        /\ \A i \in 1..Len(last.ret) : last.ret[i].seats <= last.args.max_seats_per_row
        /\ (last.args.capacity <= last.args.max_seats_per_row * last.args.max_rows
              => calculate_cabin_total_seats(last.ret) = last.args.capacity)

\* the comfort values of the seat types named in a layout, in tenths
ComfortsPresent(layout) ==
    {get_seat_type(layout[i].seat_type).comfort : i \in 1..Len(layout)}

\* a rational lies between lo and hi tenths of a comfort point
WithinComforts(p, lo, hi) == ~RatLess(p, <<lo, 10>>) /\ ~RatLess(<<hi, 10>>, p)

\* p is the average of the rows' comfort weighted by the rows' seats (6 for a
\* row without a seats key)
IsWeightedAverage(p, layout) ==
    p[1] * 10 * CabinComfortSeats(layout) = p[2] * CabinComfortSum(layout)

\* C12 as stated: for every non-empty layout, rows of 0 seats included, the
\* comfort is the weighted average and lies between the least and the greatest
\* comfort present; for the empty layout it is 1.0.
C12_ComfortBoundedForEveryLayout ==
    last.op = "calculate_cabin_comfort" =>
        IF last.args.layout = <<>> THEN last.ret = <<1, 1>>
        ELSE /\ IsWeightedAverage(last.ret, last.args.layout)
             /\ \E lo, hi \in ComfortsPresent(last.args.layout) :
                    /\ \A c \in ComfortsPresent(last.args.layout) : lo <= c /\ c <= hi
                    /\ WithinComforts(last.ret, lo, hi)

\* C12, amended: for a layout whose rows hold no negative seat count and at
\* least one seat in total, the comfort is the weighted average and lies
\* between the least and the greatest comfort present; for the empty layout,
\* and for one whose seat counts total 0 or less, it is 1.0.
C12_ComfortBoundedForSeatedLayout ==
    last.op = "calculate_cabin_comfort" =>
        LET layout == last.args.layout
        IN  IF layout = <<>> \/ CabinComfortSeats(layout) <= 0 THEN last.ret = <<1, 1>>
            ELSE (\A i \in 1..Len(layout) : RowSeats(layout[i], 6) >= 0) =>
                 /\ IsWeightedAverage(last.ret, layout)
                 /\ \E lo, hi \in ComfortsPresent(layout) :
                        /\ \A c \in ComfortsPresent(layout) : lo <= c /\ c <= hi
                        /\ WithinComforts(last.ret, lo, hi)

\* a two-row layout of different seat types, one row without a seats key, whose
\* comfort lies strictly between the two seat types' comfort
C12_MixedCabinAveraged ==
    /\ last.op = "calculate_cabin_comfort"
    /\ Len(last.args.layout) = 2
    /\ "seats" \notin DOMAIN last.args.layout[1]
    /\ "seats" \in DOMAIN last.args.layout[2]
    /\ last.args.layout[2].seats > 0
    /\ \E lo, hi \in ComfortsPresent(last.args.layout) :
          RatLess(<<lo, 10>>, last.ret) /\ RatLess(last.ret, <<hi, 10>>)

\* the operations that take an aircraft id, a flight id, an item id
AircraftOps ==
    {"perform_maintenance_level", "change_aircraft_id", "configure_aircraft_cabin",
     "purchase_airport_service", "install_custom_item", "refill_aircraft_oil",
     "change_aircraft_oil", "walkaround_check", "clear_snag", "ground_aircraft",
     "preflight_check", "start_flight"}

FlightOps == {"cancel_flight", "end_flight"}

ItemOps == {"install_custom_item", "uninstall_custom_item"}

\* the snag ids of the aircraft of a document
SnagIds(d) ==
    UNION {{d.fleet[i].snags[k].snag_id : k \in 1..Len(d.fleet[i].snags)} : i \in 1..Len(d.fleet)}

\* C13: an operation called with an aircraft, pilot, loan, flight, item or snag
\* id that is not in the state raises; in particular fire_pilot with an unknown
\* pilot_id and clear_snag with an unknown snag_id raise.
C13_UnknownReferenceRaises ==
    /\ (last.op \in AircraftOps
          /\ \A i \in 1..Len(before.fleet) : before.fleet[i].id /= last.args.aircraft_id)
        => last.raised
    /\ (last.op \in {"assign_pilot_to_aircraft", "fire_pilot"}
          /\ \A i \in 1..Len(before.pilots) : before.pilots[i].pilot_id /= last.args.pilot_id)
        => last.raised
    /\ (last.op = "repay_loan"
          /\ \A i \in 1..Len(before.loans) : before.loans[i].loan_id /= last.args.loan_id)
        => last.raised
    /\ (last.op \in FlightOps
          /\ \A i \in 1..Len(before.active_flights) :
                before.active_flights[i].flight_id /= last.args.flight_id)
        => last.raised
    /\ (last.op \in ItemOps
          /\ \A i \in 1..Len(before.custom_items) :
                before.custom_items[i].item_id /= last.args.item_id)
        => last.raised
    /\ (last.op = "clear_snag" /\ last.args.snag_id \notin SnagIds(before)) => last.raised

\* new is old with at least `least` entries put last and, beyond cap entries,
\* the oldest dropped
RingStep(old, new, cap, least) ==
    /\ Len(new) <= cap
    /\ \E added \in least..Len(new) :
          LET dropped == Max(0, Len(old) + added - cap)
          IN  /\ Len(new) = Len(old) - dropped + added
              /\ SubSeq(new, 1, Len(new) - added) = SubSeq(old, dropped + 1, Len(old))

\* the ledger category of the operations that write one entry whenever they succeed
LedgerCategory ==
    [ buy_aircraft |-> "purchase", buy_parking |-> "parking", take_loan |-> "loan",
      repay_loan |-> "loan_payment", end_flight |-> "flight" ]

\* the last call succeeded and was one that writes a ledger entry (an end_flight
\* whose aircraft is in the fleet)
WroteLedger ==
    /\ ~last.raised
    /\ last.op \in DOMAIN LedgerCategory
    /\ last.op = "end_flight" =>
          \E f \in 1..Len(before.active_flights), i \in 1..Len(before.fleet) :
              /\ before.active_flights[f].flight_id = last.args.flight_id
              /\ before.fleet[i].id = before.active_flights[f].aircraft_id

C15_LoansHaveBalance ==
    \A i \in 1..Len(doc.loans) : doc.loans[i].remaining_balance > 0

\* a daily tick, or a repayment by hand, that paid a loan off and removed it
C15_LoanPaidOff ==
    /\ last.op \in {"run_daily_tick", "repay_loan"}
    /\ ~last.raised
    /\ Len(doc.loans) < Len(before.loans)
    /\ \E i \in 1..Len(doc.loans) :
          \E j \in 1..Len(before.loans) :
              /\ before.loans[j].loan_id = doc.loans[i].loan_id
              /\ doc.loans[i].remaining_balance < before.loans[j].remaining_balance

\* the flight the last call was given, as it was before the call
EndedFlight ==
    before.active_flights[CHOOSE i \in 1..Len(before.active_flights) :
                              before.active_flights[i].flight_id = last.args.flight_id]

\* C16: every successful end_flight removes the flight from active_flights,
\* adds net = 3 * (revenue - cost - penalty + reputation_bonus) to cash with
\* revenue = passengers * ticket_price, appends one completed flight and one
\* ledger entry of amount net, also when the flight's aircraft is not in the fleet.
C16_EndFlightSettles ==
    (last.op = "end_flight" /\ ~last.raised) =>
        /\ Len(doc.active_flights) = Len(before.active_flights) - 1
        /\ \A i \in 1..Len(doc.active_flights) :
              doc.active_flights[i].flight_id /= last.args.flight_id
        /\ doc.cash = before.cash + last.ret.net
        /\ Len(doc.completed_flights) = Len(before.completed_flights) + 1
        /\ Len(doc.ledger) = Len(before.ledger) + 1
        /\ doc.ledger[Len(doc.ledger)] = [category |-> "flight", amount |-> last.ret.net]
        /\ LET rec == doc.completed_flights[Len(doc.completed_flights)]
           IN  /\ rec.revenue = EndedFlight.passengers * EndedFlight.ticket_price
               /\ last.ret.net = 3 * (rec.revenue - rec.cost - last.ret.penalty
                                      + calculate_reputation_bonus(last.ret.new_reputation,
                                                                   rec.revenue))

\* the fleet positions of the aircraft that list an item among their custom_items
Holders(item_id) ==
    {i \in 1..Len(doc.fleet) : item_id \in Range(doc.fleet[i].custom_items)}

\* C17: each custom item is either stored (installed_on null, listed by no
\* aircraft) or installed on exactly one aircraft: installed_on is the id of an
\* aircraft in the fleet, which lists the item, and no other aircraft lists it.
C17_ItemStoredOrInstalledOnce ==
    \A k \in 1..Len(doc.custom_items) :
        LET item == doc.custom_items[k]
        IN  IF item.installed_on = 0 THEN Holders(item.item_id) = {}
            ELSE \E i \in 1..Len(doc.fleet) :
                    /\ doc.fleet[i].id = item.installed_on
                    /\ Holders(item.item_id) = {i}

\* whole 30-day months between the last payment of a loan or lease and day
MonthsDue(entity, day) == MonthsElapsed(day, entity.start_date) - entity.last_payment_month

\* the monthly payments of a list of loans or leases that are due on day
RECURSIVE DueAmount(_, _)
DueAmount(entities, day) ==
    IF entities = <<>> THEN 0
    ELSE Max(0, MonthsDue(Head(entities), day)) * Head(entities).monthly_payment
         + DueAmount(Tail(entities), day)

\* the ledger entries of a category written by the last call
EntriesWritten(category) ==
    {i \in (Len(before.ledger) + 1)..Len(doc.ledger) : doc.ledger[i].category = category}

\* the lease payments due at the last call: <<lease, month>> for the leases
\* within their term that were paid before and are k >= 2 months behind
LeaseMonthsDue ==
    {<<j, n>> \in (1..Len(before.leases)) \X (1..12) :
        /\ before.leases[j].last_payment_month >= 0
        /\ MonthsElapsed(last.day, before.leases[j].start_date) + 1 <= before.leases[j].term_months
        /\ MonthsDue(before.leases[j], last.day) >= 2
        /\ n <= MonthsDue(before.leases[j], last.day)}

\* C18: an auto_process_daily_ticks that runs after k >= 2 whole months have
\* elapsed since a loan's or lease's last payment, with cash for all of them,
\* deducts all k monthly payments of that loan or lease in the one call.
C18_CatchUpPaysEveryMonth ==
    (/\ last.op = "auto_process_daily_ticks"
     /\ last.ret[1] > 0
     /\ doc.cash >= DueAmount(before.loans, last.day) + DueAmount(before.leases, last.day)) =>
        /\ \A j \in 1..Len(before.loans) :
              LET loan == before.loans[j]
                  paid == MonthsDue(loan, last.day) * loan.monthly_payment
              IN  (loan.last_payment_month >= 0 /\ MonthsDue(loan, last.day) >= 2) =>
                      IF paid >= loan.remaining_balance
                      THEN \A i \in 1..Len(doc.loans) : doc.loans[i].loan_id /= loan.loan_id
                      ELSE \E i \in 1..Len(doc.loans) :
                              /\ doc.loans[i].loan_id = loan.loan_id
                              /\ doc.loans[i].remaining_balance = loan.remaining_balance - paid
        /\ Cardinality(EntriesWritten("lease_payment")) >= Cardinality(LeaseMonthsDue)

\* C19: after run_daily_tick the stored fuel_price_multiplier is the value before
\* the tick plus that tick's random change, clamped to [0.7, 1.5] (70..150
\* hundredths), and the stored multiplier is always within [0.7, 1.5].
C19_TickStepsFuelPrice ==
    /\ 70 <= doc.fuel_price_multiplier /\ doc.fuel_price_multiplier <= 150
    /\ (last.op = "run_daily_tick" /\ ~last.raised) =>
          doc.fuel_price_multiplier
              = Max(70, Min(150, before.fuel_price_multiplier + last.args.change))

\* C20: end_flight of a flight started with an assigned pilot of skill s adds
\* the flight's pilot_skill_bonus (s - 1) * 0.5 to the reputation change, with
\* the questionnaire delta and the passenger-feedback impact, before clamping.
C20_PilotBonusAdded ==
    (/\ last.op = "end_flight"
     /\ ~last.raised
     /\ AnswersCount(last.args.answers)
     /\ EndedFlight.pilot_skill_bonus > 0) =>
        \E high \in BOOLEAN :
            LET delta == _calculate_reputation_from_answers(last.args.answers)
                         + EndedFlight.pilot_skill_bonus
                flown == update_reputation(delta, get_state(before, last.day)).reputation
                impact == generate_passenger_feedback(flown, EndedFlight.passengers,
                                                      EndedFlight.pax_requested,
                                                      EndedFlight.cabin_comfort, high)
            IN  last.ret.reputation_change = delta + impact

\* C21: an aircraft's grounded flag turns from false to true only in a
\* ground_aircraft call, or in an end_flight after which the aircraft's
\* hours_since_c_check are more than 1.2 times the C interval.
C21_GroundedOnlyByListedCauses ==
    \A i \in 1..Len(before.fleet) :
        (i <= Len(doc.fleet) /\ ~before.fleet[i].grounded /\ doc.fleet[i].grounded)
        => \/ last.op = "ground_aircraft"
           \/ /\ last.op = "end_flight"
              /\ 10 * doc.fleet[i].hours_since_c_check > 12 * MAINTENANCE_INTERVALS.C

\* the sum of the amounts of the ledger entries of these categories
RECURSIVE LedgerSum(_, _)
LedgerSum(ledger, categories) ==
    IF ledger = <<>> THEN 0
    ELSE (IF Head(ledger).category \in categories THEN Head(ledger).amount ELSE 0)
         + LedgerSum(Tail(ledger), categories)

\* term_months * monthly_payment over a list of leases
RECURSIVE LeaseTotal(_)
LeaseTotal(leases) ==
    IF leases = <<>> THEN 0
    ELSE Head(leases).term_months * Head(leases).monthly_payment + LeaseTotal(Tail(leases))

\* C22: a lease month is paid at most once.  A daily tick writes a lease payment
\* only for leases at least 30 days old (the first month was paid upfront by
\* lease_aircraft), and while every lease ever taken is still listed the total
\* deducted for leases, upfront and by ticks, is at most the sum of
\* term_months * monthly_payment.
C22_LeaseMonthPaidOnce ==
    /\ (last.op \in {"run_daily_tick", "auto_process_daily_ticks"} /\ ~last.raised) =>
          Cardinality(EntriesWritten("lease_payment"))
              <= Cardinality({j \in 1..Len(before.leases) :
                                 MonthsElapsed(last.day, before.leases[j].start_date) >= 1})
    /\ (/\ Len(doc.ledger) < LedgerCap
        /\ Cardinality({i \in 1..Len(doc.ledger) : doc.ledger[i].category = "lease"})
               = Len(doc.leases)) =>
          -LedgerSum(doc.ledger, {"lease", "lease_payment"}) <= LeaseTotal(doc.leases)

\* C23: automatic loan payments start with month 1.  A successful tick writes
\* an automatic loan payment only for loans at least 30 days old, and the month
\* a loan records as last paid is none (-1) or one of the whole 30-day months
\* 1..months elapsed since its start_date, so the payments taken for it are no
\* more than the months elapsed.
C23_LoanPaymentsFromMonthOne ==
    /\ (last.op \in {"run_daily_tick", "auto_process_daily_ticks"} /\ ~last.raised) =>
          Cardinality(EntriesWritten("loan_payment"))
              <= Cardinality({j \in 1..Len(before.loans) :
                                 MonthsElapsed(last.day, before.loans[j].start_date) >= 1})
    /\ \A j \in 1..Len(doc.loans) :
          \/ doc.loans[j].last_payment_month = -1
          \/ doc.loans[j].last_payment_month
                 \in 1..MonthsElapsed(today, doc.loans[j].start_date)

\* C24: end_flight re-evaluates the achievements against the state holding the
\* completed flight it just recorded and the cash it just updated: a successful
\* end_flight of a flight whose aircraft is in the fleet reports every flight
\* count and cash achievement that was not earned before the call and whose
\* check holds in the state the call leaves.
C24_EndFlightReportsNewAchievements ==
    (/\ last.op = "end_flight"
     /\ ~last.raised
     /\ AcIdx(before, EndedFlight.aircraft_id) /= 0) =>
        \A id \in {"first_flight", "ten_flights", "hundred_flights", "millionaire", "five_million"} :
            (id \notin Range(before.achievements) /\ AchievementCheck(id, doc))
            => id \in Range(last.ret.new_achievements)

\* C25: whenever answers are supplied to an end_flight whose aircraft is in the
\* fleet, the reputation change it reports is the questionnaire delta (the
\* touchdown band plus the departure band plus the clamped custom delta, for
\* every combination of answers) followed by the passenger feedback on the
\* reputation that delta gives.
C25_QuestionnaireAlwaysCounted ==
    (/\ last.op = "end_flight"
     /\ ~last.raised
     /\ last.args.answers.given
     /\ AcIdx(before, EndedFlight.aircraft_id) /= 0) =>
        LET delta == _calculate_reputation_from_answers(last.args.answers)
            e == [ state  |-> update_reputation(delta, get_state(before, last.day)),
                   change |-> delta ]
        IN  \E high \in BOOLEAN :
                last.ret.reputation_change = FeedbackStep(e, EndedFlight, high).change

\* the severities an A or B check removes
ClearedBy(level) == IF level = "A" THEN {"Minor"} ELSE {"Minor", "Major"}

\* C26: a successful perform_maintenance_level of level A (B) resets only
\* hours_since_a_check (hours_since_b_check), leaves the other two check
\* counters, the grounded flag and the oil timers as they were, removes exactly
\* the snags of severity Minor (Minor and Major) and keeps every Critical snag.
C26_ABCheckLimitedEffect ==
    (/\ last.op = "perform_maintenance_level"
     /\ ~last.raised
     /\ last.args.level \in {"A", "B"}) =>
        LET i == AcIdx(before, last.args.aircraft_id)
            old == before.fleet[i]
            new == doc.fleet[i]
        IN  /\ new.hours_since_a_check = IF last.args.level = "A" THEN 0 ELSE old.hours_since_a_check
            /\ new.hours_since_b_check = IF last.args.level = "B" THEN 0 ELSE old.hours_since_b_check
            /\ new.hours_since_c_check = old.hours_since_c_check
            /\ new.grounded = old.grounded
            /\ new.hours_since_oil_refill = old.hours_since_oil_refill
            /\ new.hours_since_oil_change = old.hours_since_oil_change
            /\ new.snags = SelectSeq(old.snags,
                                     LAMBDA s : s.severity \notin ClearedBy(last.args.level))
            /\ \A k \in 1..Len(old.snags) :
                  old.snags[k].severity = "Critical" => old.snags[k] \in Range(new.snags)

\* a B check on an aircraft with a Major and a Critical snag leaves the Critical one
C26_BCheckKeepsCritical ==
    /\ last.op = "perform_maintenance_level"
    /\ ~last.raised
    /\ last.args.level = "B"
    /\ LET i == AcIdx(before, last.args.aircraft_id)
       IN  /\ \E k \in 1..Len(before.fleet[i].snags) : before.fleet[i].snags[k].severity = "Major"
           /\ \E k \in 1..Len(before.fleet[i].snags) : before.fleet[i].snags[k].severity = "Critical"
           /\ Len(doc.fleet[i].snags) = 1
           /\ doc.fleet[i].snags[1].severity = "Critical"
           /\ before.fleet[i].hours_since_a_check > 0

\* the categories present in the ledger
LedgerCategories == {doc.ledger[i].category : i \in 1..Len(doc.ledger)}

\* C27: the ledger accounts for every change of cash.  While fewer than 1000
\* entries exist, cash is the initial cash plus the sum of all ledger amounts,
\* and the entries a call appends sum to the change of cash the call makes.
C27_LedgerAccountsForCash ==
    Len(doc.ledger) < LedgerCap =>
        /\ doc.cash = InitDoc.cash + LedgerSum(doc.ledger, LedgerCategories)
        /\ doc.cash - before.cash
               = LedgerSum(SubSeq(doc.ledger, Len(before.ledger) + 1, Len(doc.ledger)),
                           LedgerCategories)

\* the purchase and fee operations
PurchaseOps ==
    { "buy_aircraft", "lease_aircraft", "configure_aircraft_cabin", "buy_parking",
      "purchase_airport_service", "purchase_custom_item", "perform_maintenance_level",
      "refill_aircraft_oil", "change_aircraft_oil", "change_aircraft_id" }

\* C28: no purchase or fee operation increases cash: after a successful call of
\* one of them, whatever its arguments, cash is at most what it was before.
C28_PurchaseNeverAddsCash ==
    (last.op \in PurchaseOps /\ ~last.raised) => doc.cash <= before.cash

\* C29: in every reachable state each active flight's aircraft_id, each pilot's
\* assigned_aircraft_id that is not None and each lease's aircraft_id is the id
\* of an aircraft in the fleet.
C29_AircraftReferencesValid ==
    /\ \A i \in 1..Len(doc.active_flights) : doc.active_flights[i].aircraft_id \in AircraftIds
    /\ \A i \in 1..Len(doc.pilots) :
          doc.pilots[i].assigned_aircraft_id /= 0
          => doc.pilots[i].assigned_aircraft_id \in AircraftIds
    /\ \A i \in 1..Len(doc.leases) : doc.leases[i].aircraft_id \in AircraftIds

\* C30: an aircraft carries at most one active flight: in every reachable state
\* no two entries of active_flights have the same aircraft_id.
C30_OneActiveFlightPerAircraft ==
    \A i, j \in 1..Len(doc.active_flights) :
        doc.active_flights[i].aircraft_id = doc.active_flights[j].aircraft_id => i = j

=============================================================================
